---- MODULE Spec2Model ----
(***************************************************************************)
(* Model of analyze_thread_logs.py: the thread-analyzer log parsers        *)
(* (helgrind, drd, tsan), the exclude/include filter, the deduplicator,    *)
(* the orchestrator (parse_all_logs), the report (generate_report) and     *)
(* main; and of tools/run_many.py: the runs of a command on a pool of      *)
(* worker threads, the SIGINT handler and the exit status.                 *)
(*                                                                         *)
(* Text is modelled by TLA+ strings, character by character: Len, \o and   *)
(* SubSeq work on them, and the regular expressions of the source are      *)
(* translated into matchers over character positions (1-based).            *)
(***************************************************************************)
EXTENDS Integers, Sequences, FiniteSets, TLC

VARIABLES
    pc,          \* position of main / of the function under study
    args,        \* the argparse.Namespace: tools, exclude, include
    fs,          \* the log directory: tool name -> list of log files
    ti,          \* parse_all_logs: index of the current tool in tools
    fi,          \* parse_all_logs: index of the current log file
    log_files,   \* parse_all_logs: the list find_log_files returned
    issues,      \* parse_all_logs: the local list `issues` of the current tool
    all_issues,  \* the dict tool -> list of ThreadIssue (insertion ordered)
    dd_in,       \* deduplicate_issues studied alone: its argument
    dd_out,      \* deduplicate_issues studied alone: its result
    stdout,      \* what the run printed on standard output, one entry per print
    stderr,      \* what the run printed on standard error (the diagnostics)
    report,      \* main: the text generate_report returned
    out_files,   \* the files main wrote: path -> content
    exit_status, \* the exit status of the process, -1 while it runs
    futures,     \* run_many: run_id -> state of the future of that run
    results,     \* run_many: the list `results`, one entry per recorded run
    stop_event   \* run_many: whether the threading.Event stop_event is set

\* the two output streams
io == <<stdout, stderr>>

\* what the end of main produces
result == <<report, out_files, exit_status>>

\* the state of tools/run_many.py
run_many == <<futures, results, stop_event>>

vars == <<pc, args, fs, ti, fi, log_files, issues, all_issues, dd_in, dd_out, io, result,
          run_many>>

\* run_many.py is a program of its own: while analyze_thread_logs.py runs, the
\* state of run_many.py is empty
NoRunMany == futures = <<>> /\ results = <<>> /\ stop_event = FALSE

-----------------------------------------------------------------------------
(* Bounds of the model *)

MaxDedupLen == 3
MaxFiles == 2
MaxLines == 3
MaxPieces == 3
MaxIssues == 3

-----------------------------------------------------------------------------
(* Characters and Python's str primitives *)

HELGRIND == "helgrind"
DRD == "drd"
TSAN == "tsan"

\* what \s and str.strip() treat as white space (of the characters used here)
WS == {" ", "\n", "\t"}
DIGITS == {"0", "1", "2", "3", "4", "5", "6", "7", "8", "9"}
UPPER == {"A", "B", "C", "D", "E", "F", "G", "H", "I", "J", "K", "L", "M",
          "N", "O", "P", "Q", "R", "S", "T", "U", "V", "W", "X", "Y", "Z"}
LOWER == {"a", "b", "c", "d", "e", "f", "g", "h", "i", "j", "k", "l", "m",
          "n", "o", "p", "q", "r", "s", "t", "u", "v", "w", "x", "y", "z"}

Min(S) == CHOOSE x \in S : \A y \in S : x <= y
Max(S) == CHOOSE x \in S : \A y \in S : x >= y

\* s[i-1] of Python: the i-th character, "" past the end
Ch(s, i) == IF i >= 1 /\ i <= Len(s) THEN SubSeq(s, i, i) ELSE ""

\* s[i-1:] of Python
From(s, i) == SubSeq(s, i, Len(s))

\* s.startswith(p, i-1)
StartsAt(s, p, i) ==
    /\ i >= 1
    /\ i + Len(p) - 1 <= Len(s)
    /\ SubSeq(s, i, i + Len(p) - 1) = p

\* s.find(p, from-1) + 1: the least position >= from where p occurs, 0 if none
StrFind(s, p, from) ==
    LET hits == {i \in from..(Len(s) - Len(p) + 1) : StartsAt(s, p, i)}
    IN  IF hits = {} THEN 0 ELSE Min(hits)

\* p in s
Contains(s, p) == StrFind(s, p, 1) # 0

\* s.strip()
Strip(s) ==
    LET keep == {i \in 1..Len(s) : Ch(s, i) \notin WS}
    IN  IF keep = {} THEN "" ELSE SubSeq(s, Min(keep), Max(keep))

\* s.split(sep) for a one-character separator
RECURSIVE Split(_, _)
Split(s, sep) ==
    LET i == StrFind(s, sep, 1)
    IN  IF i = 0 THEN <<s>>
        ELSE <<SubSeq(s, 1, i - 1)>> \o Split(From(s, i + 1), sep)

\* s.replace(old, "") : every non-overlapping occurrence removed, left to right
RECURSIVE Remove(_, _)
Remove(s, old) ==
    LET i == StrFind(s, old, 1)
    IN  IF i = 0 THEN s
        ELSE SubSeq(s, 1, i - 1) \o Remove(From(s, i + Len(old)), old)

LowerCh(c) ==
    CASE c = "A" -> "a" [] c = "B" -> "b" [] c = "C" -> "c" [] c = "D" -> "d"
      [] c = "E" -> "e" [] c = "F" -> "f" [] c = "G" -> "g" [] c = "H" -> "h"
      [] c = "I" -> "i" [] c = "J" -> "j" [] c = "K" -> "k" [] c = "L" -> "l"
      [] c = "M" -> "m" [] c = "N" -> "n" [] c = "O" -> "o" [] c = "P" -> "p"
      [] c = "Q" -> "q" [] c = "R" -> "r" [] c = "S" -> "s" [] c = "T" -> "t"
      [] c = "U" -> "u" [] c = "V" -> "v" [] c = "W" -> "w" [] c = "X" -> "x"
      [] c = "Y" -> "y" [] c = "Z" -> "z" [] OTHER -> c

\* s.lower()
RECURSIVE Lower(_)
Lower(s) == IF s = "" THEN "" ELSE LowerCh(Ch(s, 1)) \o Lower(From(s, 2))

\* p in s.lower(), character by character
ContainsLower(s, p) ==
    \E i \in 1..(Len(s) - Len(p) + 1) :
        \A k \in 1..Len(p) : LowerCh(Ch(s, i + k - 1)) = Ch(p, k)

\* sep.join(xs)
RECURSIVE Join(_, _)
Join(sep, xs) ==
    IF xs = <<>> THEN ""
    ELSE IF Len(xs) = 1 THEN xs[1]
    ELSE xs[1] \o sep \o Join(sep, Tail(xs))

\* xs[:n]
Take(xs, n) == SubSeq(xs, 1, IF Len(xs) < n THEN Len(xs) ELSE n)

UpperCh(c) ==
    CASE c = "a" -> "A" [] c = "b" -> "B" [] c = "c" -> "C" [] c = "d" -> "D"
      [] c = "e" -> "E" [] c = "f" -> "F" [] c = "g" -> "G" [] c = "h" -> "H"
      [] c = "i" -> "I" [] c = "j" -> "J" [] c = "k" -> "K" [] c = "l" -> "L"
      [] c = "m" -> "M" [] c = "n" -> "N" [] c = "o" -> "O" [] c = "p" -> "P"
      [] c = "q" -> "Q" [] c = "r" -> "R" [] c = "s" -> "S" [] c = "t" -> "T"
      [] c = "u" -> "U" [] c = "v" -> "V" [] c = "w" -> "W" [] c = "x" -> "X"
      [] c = "y" -> "Y" [] c = "z" -> "Z" [] OTHER -> c

\* s.upper()
RECURSIVE Upper(_)
Upper(s) == IF s = "" THEN "" ELSE UpperCh(Ch(s, 1)) \o Upper(From(s, 2))

\* c * n
RECURSIVE Repeat(_, _)
Repeat(c, n) == IF n <= 0 THEN "" ELSE c \o Repeat(c, n - 1)

\* str(d) of a digit
Digit(d) == SubSeq("0123456789", d + 1, d + 1)

\* str(n), as an f-string formats an int
RECURSIVE Str(_)
Str(n) ==
    IF n < 0 THEN "-" \o Str(0 - n)
    ELSE IF n < 10 THEN Digit(n)
    ELSE Str(n \div 10) \o Digit(n % 10)

\* the printable ASCII characters in code point order, from the space on (a
\* tab holds the place of the double quote, the backslash and the backquote)
ASCII ==
    " !\t#$%&'()*+,-./0123456789:;<=>?@ABCDEFGHIJKLMNOPQRSTUVWXYZ[\t]^_\tabcdefghijklmnopqrstuvwxyz{|}~"

\* ord(c) of a printable character, counted from the space; tab and newline
\* come before it
Ord(c) == IF c = "\t" THEN 0 - 1 ELSE IF c = "\n" THEN 0 ELSE StrFind(ASCII, c, 1)

\* a < b for str: by code points, a proper prefix first
StrLess(a, b) ==
    \E i \in 1..(Len(b)) :
        /\ i - 1 <= Len(a)
        /\ SubSeq(a, 1, i - 1) = SubSeq(b, 1, i - 1)
        /\ (i > Len(a) \/ Ord(Ch(a, i)) < Ord(Ch(b, i)))

\* os.path.join(a, b) for a relative b and an a without trailing separator
path_join(a, b) == a \o "/" \o b

-----------------------------------------------------------------------------
(* class ThreadIssue *)

\* a variant of _compute_hash that signs the whole stack trace
compute_hash_all_frames(tool, issue_type, stack_trace) ==
    tool \o ":" \o issue_type \o ":" \o Join("|", stack_trace)

\* a variant of _compute_hash that leaves the tool out of the signature
compute_hash_no_tool(tool, issue_type, stack_trace) ==
    LET stack_sig == IF stack_trace # <<>> THEN Join("|", Take(stack_trace, 3)) ELSE ""
    IN  issue_type \o ":" \o stack_sig

\* ThreadIssue._compute_hash
compute_hash(tool, issue_type, stack_trace) ==
    LET stack_sig == IF stack_trace # <<>> THEN Join("|", Take(stack_trace, 3)) ELSE ""
    IN  tool \o ":" \o issue_type \o ":" \o stack_sig

\* ThreadIssue.__init__
ThreadIssue(tool, issue_type, description, stack_trace, file_locations, run_id, raw_log) ==
    [tool |-> tool,
     issue_type |-> issue_type,
     description |-> description,
     stack_trace |-> stack_trace,
     file_locations |-> file_locations,
     run_id |-> run_id,
     raw_log |-> raw_log,
     hash |-> compute_hash(tool, issue_type, stack_trace)]

-----------------------------------------------------------------------------
(* deduplicate_issues *)

\* the dict unique_issues, as the list of its values in insertion order
RECURSIVE dedup_loop(_, _)
dedup_loop(rest, unique_issues) ==
    IF rest = <<>> THEN unique_issues
    ELSE LET issue == Head(rest)
         IN  IF \A k \in 1..Len(unique_issues) : unique_issues[k].hash # issue.hash
             THEN dedup_loop(Tail(rest), Append(unique_issues, issue))
             ELSE dedup_loop(Tail(rest), unique_issues)

\* a variant that lets a later issue replace the stored one (the key keeps its place)
RECURSIVE dedup_loop_last(_, _)
dedup_loop_last(rest, unique_issues) ==
    IF rest = <<>> THEN unique_issues
    ELSE LET issue == Head(rest)
         IN  IF \A k \in 1..Len(unique_issues) : unique_issues[k].hash # issue.hash
             THEN dedup_loop_last(Tail(rest), Append(unique_issues, issue))
             ELSE dedup_loop_last(Tail(rest),
                     [k \in 1..Len(unique_issues) |->
                         IF unique_issues[k].hash = issue.hash THEN issue
                         ELSE unique_issues[k]])

deduplicate_issues_keep_last(issue_list) == dedup_loop_last(issue_list, <<>>)

deduplicate_issues(issue_list) == dedup_loop(issue_list, <<>>)

-----------------------------------------------------------------------------
(* The regular expressions of the source, as matchers.  A matcher M(s, i)   *)
(* gives the position just after the match of the pattern that starts at    *)
(* position i of s, or 0 when the pattern does not match there.             *)

\* the length of the run of characters of class cls that starts at position i
RECURSIVE Run(_, _, _)
Run(s, cls, i) == IF Ch(s, i) \in cls THEN 1 + Run(s, cls, i + 1) ELSE 0

\* ==\d+==   (the text that follows is matched by the caller)
pid_end(s, i) ==
    IF ~StartsAt(s, "==", i) THEN 0
    ELSE LET d == Run(s, DIGITS, i + 2)
         IN  IF d >= 1 /\ StartsAt(s, "==", i + 2 + d) THEN i + 4 + d ELSE 0

\* lit matched at k, or 0
lit_end(s, lit, k) == IF StartsAt(s, lit, k) THEN k + Len(lit) ELSE 0

\* r'==\d+== ?---Thread-Announcement--'
helgrind_split_re(s, i) ==
    LET k == pid_end(s, i)
        lit == "---Thread-Announcement--"
    IN  IF k = 0 THEN 0
        ELSE IF Ch(s, k) = " " /\ lit_end(s, lit, k + 1) # 0 THEN lit_end(s, lit, k + 1)
        ELSE lit_end(s, lit, k)

\* (?:Conflicting (?:load|store)|[A-Z][a-z]+ lock order violation)
drd_header_alt(s, k) ==
    IF StartsAt(s, "Conflicting load", k) THEN k + Len("Conflicting load")
    ELSE IF StartsAt(s, "Conflicting store", k) THEN k + Len("Conflicting store")
    ELSE IF Ch(s, k) \in UPPER /\ Run(s, LOWER, k + 1) >= 1
         THEN lit_end(s, " lock order violation", k + 1 + Run(s, LOWER, k + 1))
    ELSE 0

\* r'==\d+== ?(?:Conflicting (?:load|store)|[A-Z][a-z]+ lock order violation)'
drd_split_re(s, i) ==
    LET k == pid_end(s, i)
    IN  IF k = 0 THEN 0
        ELSE IF Ch(s, k) = " " /\ drd_header_alt(s, k + 1) # 0 THEN drd_header_alt(s, k + 1)
        ELSE drd_header_alt(s, k)

\* r'WARNING: ThreadSanitizer:'
tsan_split_re(s, i) == lit_end(s, "WARNING: ThreadSanitizer:", i)

\* the split pattern of the parser of `tool`, matched at position i of s
split_re(tool, s, i) ==
    IF tool = HELGRIND THEN helgrind_split_re(s, i)
    ELSE IF tool = DRD THEN drd_split_re(s, i)
    ELSE tsan_split_re(s, i)

\* the least position >= from where the split pattern of `tool` matches, 0 if
\* none (re.search from there)
re_search(tool, s, from) ==
    LET hits == {i \in from..Len(s) : split_re(tool, s, i) # 0}
    IN  IF hits = {} THEN 0 ELSE Min(hits)

\* the pieces of s from position st on, cut at the matches of the split pattern
RECURSIVE re_split_from(_, _, _)
re_split_from(tool, s, st) ==
    LET i == re_search(tool, s, st)
    IN  IF i = 0 THEN <<SubSeq(s, st, Len(s))>>
        ELSE <<SubSeq(s, st, i - 1)>> \o re_split_from(tool, s, split_re(tool, s, i))

\* re.split(pattern, s) for the split pattern of `tool` (no groups, no empty match)
re_split(tool, s) == re_split_from(tool, s, 1)

-----------------------------------------------------------------------------
(* is_excluded *)

\* a variant that looks at the exclude patterns before the include patterns
is_excluded_exclude_first(line, exclude_patterns, include_patterns) ==
    IF \E k \in 1..Len(exclude_patterns) : Contains(line, exclude_patterns[k]) THEN TRUE
    ELSE FALSE

\* for pattern in patterns: if pattern in line: return True  (else fall through)
RECURSIVE any_pattern_in(_, _)
any_pattern_in(patterns, line) ==
    IF patterns = <<>> THEN FALSE
    ELSE IF Contains(line, Head(patterns)) THEN TRUE
    ELSE any_pattern_in(Tail(patterns), line)

is_excluded(line, exclude_patterns, include_patterns) ==
    IF any_pattern_in(include_patterns, line) THEN FALSE
    ELSE IF any_pattern_in(exclude_patterns, line) THEN TRUE
    ELSE FALSE

\* any(is_excluded(line, ...) for line in lines)
any_line_excluded(lines, exclude_patterns, include_patterns) ==
    \E k \in 1..Len(lines) : is_excluded(lines[k], exclude_patterns, include_patterns)

-----------------------------------------------------------------------------
(* extract_file_locations.  A location matcher gives [end, loc]: the        *)
(* position after the match and the text "group(1):group(2)"; end = 0 when  *)
(* there is no match at that position.                                      *)

NoMatch == [end |-> 0, loc |-> ""]

\* ([^:]+\.[ch][^:]*):(\d+) with group 1 starting at p; `strict` restricts the
\* leading [^:]+ to [^:\s]+ (pattern 4); `close` is the text required after it
path_line(s, p, strict, close) ==
    LET c == StrFind(s, ":", p)
        d == Run(s, DIGITS, c + 1)
        dots == {j \in (p + 1)..(c - 2) :
                    /\ Ch(s, j) = "."
                    /\ Ch(s, j + 1) \in {"c", "h"}
                    /\ strict => \A q \in p..(j - 1) : Ch(s, q) \notin WS}
    IN  IF p > Len(s) \/ c = 0 \/ d = 0 \/ dots = {} THEN NoMatch
        ELSE IF ~StartsAt(s, close, c + 1 + d) THEN NoMatch
        ELSE [end |-> c + 1 + d + Len(close),
              loc |-> SubSeq(s, p, c - 1) \o ":" \o SubSeq(s, c + 1, c + d)]

\* r'at\s+([^:]+\.[ch][^:]*):(\d+)' : \s+ is greedy and gives white space back
\* to group 1 when the match fails otherwise
file_pattern_1(s, i) ==
    LET w == Run(s, WS, i + 2)
        ok == {k \in 1..w : path_line(s, i + 2 + k, FALSE, "").end # 0}
    IN  IF ~StartsAt(s, "at", i) \/ ok = {} THEN NoMatch
        ELSE path_line(s, i + 2 + Max(ok), FALSE, "")

\* r'in\s+[^(]+\(([^:]+\.[ch][^:]*):(\d+)\)'
file_pattern_2(s, i) ==
    LET w == Run(s, WS, i + 2)
        o == StrFind(s, "(", i + 3)
    IN  IF ~StartsAt(s, "in", i) \/ w = 0 \/ o < i + 4 THEN NoMatch
        ELSE path_line(s, o + 1, FALSE, ")")

\* r'\(([^:]+\.[ch][^:]*):(\d+)\)'
file_pattern_3(s, i) ==
    IF Ch(s, i) # "(" THEN NoMatch ELSE path_line(s, i + 1, FALSE, ")")

\* r'([^:\s]+\.[ch][^:]*):(\d+)'
file_pattern_4(s, i) ==
    IF Ch(s, i) \in WS \cup {":", ""} THEN NoMatch ELSE path_line(s, i, TRUE, "")

\* file_patterns[n - 1] matched at position i of s
file_pattern(n, s, i) ==
    IF n = 1 THEN file_pattern_1(s, i)
    ELSE IF n = 2 THEN file_pattern_2(s, i)
    ELSE IF n = 3 THEN file_pattern_3(s, i)
    ELSE file_pattern_4(s, i)

\* the matches of file_patterns[n - 1] in line from position st on, left to right
RECURSIVE finditer_from(_, _, _)
finditer_from(n, line, st) ==
    LET hits == {i \in st..Len(line) : file_pattern(n, line, i).end # 0}
    IN  IF hits = {} THEN {}
        ELSE LET m == file_pattern(n, line, Min(hits))
             IN  {m.loc} \cup finditer_from(n, line, m.end)

\* {f"{m.group(1)}:{m.group(2)}" for m in file_patterns[n - 1].finditer(line)}
finditer_locs(n, line) == finditer_from(n, line, 1)

line_locations(line) == UNION {finditer_locs(n, line) : n \in 1..4}

extract_file_locations(text_block) ==
    UNION {line_locations(text_block[k]) : k \in 1..Len(text_block)}

-----------------------------------------------------------------------------
(* extract_stack_trace *)

\* r'^\s*(?:at|by)\s+' matched at the start of s: the position after it, or 0
valgrind_frame_re(s) ==
    LET a == 1 + Run(s, WS, 1)
        w == Run(s, WS, a + 2)
    IN  IF (StartsAt(s, "at", a) \/ StartsAt(s, "by", a)) /\ w >= 1 THEN a + 2 + w ELSE 0

\* r'^\s*#\d+\s+'
tsan_frame_re(s) ==
    LET a == 1 + Run(s, WS, 1)
        d == Run(s, DIGITS, a + 1)
        w == Run(s, WS, a + 1 + d)
    IN  IF Ch(s, a) = "#" /\ d >= 1 /\ w >= 1 THEN a + 1 + d + w ELSE 0

\* the frame pattern of `tool` matched at the start of s
frame_re(tool, s) == IF tool = TSAN THEN tsan_frame_re(s) ELSE valgrind_frame_re(s)

\* re.sub(pattern, '', line.strip()) for the frame pattern of `tool`
sub_frame(tool, line) ==
    LET t == Strip(line)
    IN  IF frame_re(tool, t) = 0 THEN t ELSE From(t, frame_re(tool, t))

\* a variant of valgrind_stack that a blank line does not stop
RECURSIVE valgrind_stack_all(_, _)
valgrind_stack_all(lines, in_stack) ==
    IF lines = <<>> THEN <<>>
    ELSE IF valgrind_frame_re(Head(lines)) # 0
         THEN <<sub_frame(HELGRIND, Head(lines))>> \o valgrind_stack_all(Tail(lines), TRUE)
    ELSE valgrind_stack_all(Tail(lines), in_stack)

\* the loop over text_block for HELGRIND and DRD, with its flag in_stack
RECURSIVE valgrind_stack(_, _)
valgrind_stack(lines, in_stack) ==
    IF lines = <<>> THEN <<>>
    ELSE IF valgrind_frame_re(Head(lines)) # 0
         THEN <<sub_frame(HELGRIND, Head(lines))>> \o valgrind_stack(Tail(lines), TRUE)
    ELSE IF in_stack /\ Strip(Head(lines)) = "" THEN <<>>
    ELSE valgrind_stack(Tail(lines), in_stack)

RECURSIVE tsan_stack(_)
tsan_stack(lines) ==
    IF lines = <<>> THEN <<>>
    ELSE IF tsan_frame_re(Head(lines)) # 0
         THEN <<sub_frame(TSAN, Head(lines))>> \o tsan_stack(Tail(lines))
    ELSE tsan_stack(Tail(lines))

extract_stack_trace(text_block, tool) ==
    IF tool = HELGRIND \/ tool = DRD THEN valgrind_stack(text_block, FALSE)
    ELSE IF tool = TSAN THEN tsan_stack(text_block)
    ELSE <<>>

-----------------------------------------------------------------------------
(* The three parsers.  A log file is [name, content, ok]: its base name,    *)
(* its text, and whether open()/read() succeed.                             *)

\* block.strip().split('\n')
block_lines(block) == Split(Strip(block), "\n")

\* for line in lines: if <test>: description = line.strip(); break
\* where hits are the indices of the lines that pass the test
first_line_with(hits, lines, default) ==
    IF hits = {} THEN default ELSE Strip(lines[Min(hits)])

\* ---- helgrind ----

\* error_blocks[1:], each with "==Thread-Announcement--" put in front
helgrind_blocks(content) ==
    LET error_blocks == re_split(HELGRIND, content)
    IN  [k \in 1..(Len(error_blocks) - 1) |-> "==Thread-Announcement--" \o error_blocks[k + 1]]

\* a variant of helgrind_type that tests 'Lock order' before 'Possible data race'
helgrind_type_lock_first(block) ==
    IF Contains(block, "Lock order") THEN "Lock Order Violation"
    ELSE IF Contains(block, "Possible data race") THEN "Data Race"
    ELSE IF Contains(block, "Thread #") /\ (Contains(block, "read") \/ Contains(block, "write"))
         THEN "Data Access Violation"
    ELSE "Unknown"

helgrind_type(block) ==
    IF Contains(block, "Possible data race") THEN "Data Race"
    ELSE IF Contains(block, "Lock order") THEN "Lock Order Violation"
    ELSE IF Contains(block, "Thread #") /\ (Contains(block, "read") \/ Contains(block, "write"))
         THEN "Data Access Violation"
    ELSE "Unknown"

helgrind_is_race_line(line) == Contains(line, "Possible data race")
helgrind_is_lock_line(line) == Contains(line, "Lock order")
helgrind_is_access_line(line) ==
    Contains(line, "Thread #") /\ (Contains(line, "read") \/ Contains(line, "write"))

helgrind_description(block, lines) ==
    IF Contains(block, "Possible data race")
        THEN first_line_with({k \in 1..Len(lines) : helgrind_is_race_line(lines[k])},
                             lines, "Unknown issue")
    ELSE IF Contains(block, "Lock order")
        THEN first_line_with({k \in 1..Len(lines) : helgrind_is_lock_line(lines[k])},
                             lines, "Unknown issue")
    ELSE IF Contains(block, "Thread #") /\ (Contains(block, "read") \/ Contains(block, "write"))
        THEN first_line_with({k \in 1..Len(Take(lines, 10)) : helgrind_is_access_line(lines[k])},
                             Take(lines, 10), "Unknown issue")
    ELSE "Unknown issue"

helgrind_run_id(name) == Remove(Remove(name, "helgrind_"), ".log")

\* the body of the loop over error_blocks for a block that is not skipped
helgrind_issue(block, run_id) ==
    LET lines == block_lines(block)
    IN  ThreadIssue(HELGRIND, helgrind_type(block), helgrind_description(block, lines),
                    extract_stack_trace(lines, HELGRIND), extract_file_locations(lines),
                    run_id, lines)


\* ---- drd ----

\* the block of iteration i = k of the loop: error_blocks[k] with the header
\* found in prev_header (the block of the iteration before) put in front
RECURSIVE drd_block(_, _)
drd_block(error_blocks, k) ==
    LET prev_header == IF k = 1 THEN "" ELSE drd_block(error_blocks, k - 1)
        h == re_search(DRD, prev_header, 1)
    IN  IF h # 0
        THEN SubSeq(prev_header, h, drd_split_re(prev_header, h) - 1) \o error_blocks[k + 1]
        ELSE error_blocks[k + 1]

\* error_blocks[1:], each reassembled
drd_blocks(content) ==
    LET error_blocks == re_split(DRD, content)
    IN  [k \in 1..(Len(error_blocks) - 1) |-> drd_block(error_blocks, k)]

drd_type(block) ==
    IF Contains(block, "Conflicting load") \/ Contains(block, "Conflicting store") THEN "Data Race"
    ELSE IF Contains(block, "lock order violation") THEN "Lock Order Violation"
    ELSE "Unknown"

drd_is_race_line(line) == Contains(line, "Conflicting")
drd_is_lock_line(line) == Contains(line, "lock order violation")

drd_description(block, lines) ==
    IF Contains(block, "Conflicting load") \/ Contains(block, "Conflicting store")
        THEN first_line_with({k \in 1..Len(lines) : drd_is_race_line(lines[k])},
                             lines, "Unknown issue")
    ELSE IF Contains(block, "lock order violation")
        THEN first_line_with({k \in 1..Len(lines) : drd_is_lock_line(lines[k])},
                             lines, "Unknown issue")
    ELSE "Unknown issue"

drd_run_id(name) == Remove(Remove(name, "drd_"), ".log")

drd_issue(block, run_id) ==
    LET lines == block_lines(block)
    IN  ThreadIssue(DRD, drd_type(block), drd_description(block, lines),
                    extract_stack_trace(lines, DRD), extract_file_locations(lines),
                    run_id, lines)


\* ---- tsan ----

\* a variant of tsan_blocks that keeps the text after the first "\n\n"
tsan_blocks_uncut(content) ==
    LET error_blocks == re_split(TSAN, content)
    IN  [k \in 1..(Len(error_blocks) - 1) |-> "WARNING: ThreadSanitizer:" \o error_blocks[k + 1]]

\* error_blocks[1:], each with the marker put in front and cut at the first "\n\n"
tsan_blocks(content) ==
    LET error_blocks == re_split(TSAN, content)
        cut(block) ==
            LET block_end == StrFind(block, "\n\n", 1)
            IN  IF block_end > 1 THEN SubSeq(block, 1, block_end - 1) ELSE block
    IN  [k \in 1..(Len(error_blocks) - 1) |-> cut("WARNING: ThreadSanitizer:" \o error_blocks[k + 1])]

\* re.search(r'(?:WARNING: ThreadSanitizer:)\s*([^:]+)', description): group(1),
\* as <<text>>, or <<>> when there is no match
tsan_type_match(description) ==
    LET marker == "WARNING: ThreadSanitizer:"
        grp(m) ==
            LET a == m + Len(marker)
                w == Run(description, WS, a)
                g == a + w
                c == StrFind(description, ":", g)
                stop == IF c = 0 THEN Len(description) ELSE c - 1
            IN  IF g <= Len(description) /\ Ch(description, g) # ":"
                    THEN <<SubSeq(description, g, stop)>>
                ELSE IF w >= 1 THEN <<Ch(description, g - 1)>>
                ELSE <<>>
        hits == {m \in 1..Len(description) :
                    StartsAt(description, marker, m) /\ grp(m) # <<>>}
    IN  IF hits = {} THEN <<>> ELSE grp(Min(hits))

\* a variant of tsan_type that tests 'thread leak' before 'data race'
tsan_type_leak_first(block, lines) ==
    IF ContainsLower(block, "thread leak") THEN "Thread Leak"
    ELSE IF ContainsLower(block, "data race") THEN "Data Race"
    ELSE IF ContainsLower(block, "lock order inversion") \/ ContainsLower(block, "deadlock")
        THEN "Lock Order Violation"
    ELSE IF ContainsLower(block, "use-after-free") THEN "Use After Free"
    ELSE LET type_match == tsan_type_match(Strip(lines[1]))
         IN  IF type_match # <<>> THEN Strip(type_match[1]) ELSE "Unknown"

tsan_type(block, lines) ==
    IF ContainsLower(block, "data race") THEN "Data Race"
    ELSE IF ContainsLower(block, "lock order inversion") \/ ContainsLower(block, "deadlock")
        THEN "Lock Order Violation"
    ELSE IF ContainsLower(block, "thread leak") THEN "Thread Leak"
    ELSE IF ContainsLower(block, "use-after-free") THEN "Use After Free"
    ELSE LET type_match == tsan_type_match(Strip(lines[1]))
         IN  IF type_match # <<>> THEN Strip(type_match[1]) ELSE "Unknown"

tsan_description(block, lines) == Strip(lines[1])

tsan_run_id(name) == Remove(Remove(name, "tsan_"), ".log")

tsan_issue(block, run_id) ==
    LET lines == block_lines(block)
    IN  ThreadIssue(TSAN, tsan_type(block, lines), tsan_description(block, lines),
                    extract_stack_trace(lines, TSAN), extract_file_locations(lines),
                    run_id, lines)


\* the reassembled blocks of the parser of `tool`
blocks_of(tool, content) ==
    IF tool = HELGRIND THEN helgrind_blocks(content)
    ELSE IF tool = DRD THEN drd_blocks(content)
    ELSE tsan_blocks(content)

\* ThreadIssue(tool=..., ...) for a block of the parser of `tool`
make_issue(tool, block, run_id) ==
    IF tool = HELGRIND THEN helgrind_issue(block, run_id)
    ELSE IF tool = DRD THEN drd_issue(block, run_id)
    ELSE tsan_issue(block, run_id)

\* a variant of parse_blocks that drops the blocks it cannot classify
RECURSIVE parse_blocks_known(_, _, _, _, _)
parse_blocks_known(tool, blocks, run_id, exclude_patterns, include_patterns) ==
    IF blocks = <<>> THEN <<>>
    ELSE IF \/ any_line_excluded(block_lines(Head(blocks)), exclude_patterns, include_patterns)
            \/ make_issue(tool, Head(blocks), run_id).issue_type = "Unknown"
         THEN parse_blocks_known(tool, Tail(blocks), run_id, exclude_patterns, include_patterns)
    ELSE <<make_issue(tool, Head(blocks), run_id)>>
            \o parse_blocks_known(tool, Tail(blocks), run_id, exclude_patterns, include_patterns)

\* the loop "for i, block in enumerate(error_blocks)" of a parser over the
\* reassembled blocks that follow the header piece: a block with an excluded
\* line is skipped, every other block appends its issue
RECURSIVE parse_blocks(_, _, _, _, _)
parse_blocks(tool, blocks, run_id, exclude_patterns, include_patterns) ==
    IF blocks = <<>> THEN <<>>
    ELSE IF any_line_excluded(block_lines(Head(blocks)), exclude_patterns, include_patterns)
         THEN parse_blocks(tool, Tail(blocks), run_id, exclude_patterns, include_patterns)
    ELSE <<make_issue(tool, Head(blocks), run_id)>>
            \o parse_blocks(tool, Tail(blocks), run_id, exclude_patterns, include_patterns)

parse_helgrind_log(log_file, exclude_patterns, include_patterns) ==
    IF ~log_file.ok THEN <<>>
    ELSE parse_blocks(HELGRIND, helgrind_blocks(log_file.content), helgrind_run_id(log_file.name),
                      exclude_patterns, include_patterns)

parse_drd_log(log_file, exclude_patterns, include_patterns) ==
    IF ~log_file.ok THEN <<>>
    ELSE parse_blocks(DRD, drd_blocks(log_file.content), drd_run_id(log_file.name),
                      exclude_patterns, include_patterns)

parse_tsan_log(log_file, exclude_patterns, include_patterns) ==
    IF ~log_file.ok THEN <<>>
    ELSE parse_blocks(TSAN, tsan_blocks(log_file.content), tsan_run_id(log_file.name),
                      exclude_patterns, include_patterns)

-----------------------------------------------------------------------------
(* The orchestrator: find_log_files, parse_all_logs, main.                  *)
(* fs maps a tool's subdirectory of args.log_dir to [exists, files].        *)

TOOLS == {HELGRIND, DRD, TSAN}

\* all_issues is a dict: the list of its items [key, val] in insertion order
dict_keys(d) == [k \in 1..Len(d) |-> d[k].key]

dict_has(d, key) == \E k \in 1..Len(d) : d[k].key = key

dict_get(d, key) == d[CHOOSE k \in 1..Len(d) : d[k].key = key].val

\* d[key] = val
dict_set(d, key, val) ==
    IF dict_has(d, key)
    THEN [k \in 1..Len(d) |-> IF d[k].key = key THEN [key |-> key, val |-> val] ELSE d[k]]
    ELSE Append(d, [key |-> key, val |-> val])

\* fnmatch(name, f"{tool}_*.log")
glob_match(name, tool) ==
    /\ StartsAt(name, tool \o "_", 1)
    /\ Len(name) >= Len(tool) + 5
    /\ StartsAt(name, ".log", Len(name) - 3)

SelectFiles(files, tool) == SelectSeq(files, LAMBDA f : glob_match(f.name, tool))

find_log_files(dirs, tool) ==
    IF tool \notin DOMAIN dirs \/ ~dirs[tool].exists THEN <<>>
    ELSE SelectFiles(dirs[tool].files, tool)

\* args.tools.split(',')
tools_of(a) == Split(a.tools, ",")

\* tool = tool.strip().lower()
tool_at(a, k) == Lower(Strip(tools_of(a)[k]))

\* the if/elif chain of parse_all_logs: what one log file adds to `issues`
parse_log(tool, log_file, a) ==
    IF tool = HELGRIND THEN parse_helgrind_log(log_file, a.exclude, a.include)
    ELSE IF tool = DRD THEN parse_drd_log(log_file, a.exclude, a.include)
    ELSE IF tool = TSAN THEN parse_tsan_log(log_file, a.exclude, a.include)
    ELSE <<>>

\* ---- generate_report ----

\* issues_by_type: the defaultdict(int) filled by the loop over the issues
RECURSIVE count_by_type(_, _)
count_by_type(rest, issues_by_type) ==
    IF rest = <<>> THEN issues_by_type
    ELSE LET t == Head(rest).issue_type
             n == IF dict_has(issues_by_type, t) THEN dict_get(issues_by_type, t) ELSE 0
         IN  count_by_type(Tail(rest), dict_set(issues_by_type, t, n + 1))

\* sum(len(issues) for issues in all_issues.values())
RECURSIVE total_issues(_)
total_issues(d) == IF d = <<>> THEN 0 ELSE Len(Head(d).val) + total_issues(Tail(d))

\* a variant of summary_of_tool that lists the categories last counted first
summary_of_tool_reversed(tool, tool_issues) ==
    IF tool_issues = <<>> THEN <<Upper(tool) \o ": No issues found">>
    ELSE LET issues_by_type == count_by_type(tool_issues, <<>>)
             last == Len(issues_by_type)
         IN  <<Upper(tool) \o ": " \o Str(Len(tool_issues)) \o " issues found">>
                 \o [k \in 1..last |->
                        "  - " \o issues_by_type[last + 1 - k].key \o ": "
                            \o Str(issues_by_type[last + 1 - k].val)]
                 \o <<"">>

\* "Summary by tool": the lines appended for one item of all_issues
summary_of_tool(tool, tool_issues) ==
    IF tool_issues = <<>> THEN <<Upper(tool) \o ": No issues found">>
    ELSE LET issues_by_type == count_by_type(tool_issues, <<>>)
         IN  <<Upper(tool) \o ": " \o Str(Len(tool_issues)) \o " issues found">>
                 \o [k \in 1..Len(issues_by_type) |->
                        "  - " \o issues_by_type[k].key \o ": " \o Str(issues_by_type[k].val)]
                 \o <<"">>

\* a variant of insert_by_type that puts an issue before the issues of its
\* own category
RECURSIVE insert_by_type_before_equal(_, _)
insert_by_type_before_equal(sorted_issues, issue) ==
    IF sorted_issues = <<>> THEN <<issue>>
    ELSE IF ~StrLess(Head(sorted_issues).issue_type, issue.issue_type)
         THEN <<issue>> \o sorted_issues
         ELSE <<Head(sorted_issues)>> \o insert_by_type_before_equal(Tail(sorted_issues), issue)

\* sorted(xs, key=lambda x: x.issue_type): stable, so an issue goes after the
\* issues already placed whose key is not greater
RECURSIVE insert_by_type(_, _)
insert_by_type(sorted_issues, issue) ==
    IF sorted_issues = <<>> THEN <<issue>>
    ELSE IF StrLess(issue.issue_type, Head(sorted_issues).issue_type)
         THEN <<issue>> \o sorted_issues
         ELSE <<Head(sorted_issues)>> \o insert_by_type(Tail(sorted_issues), issue)

RECURSIVE sort_from(_, _)
sort_from(rest, sorted_issues) ==
    IF rest = <<>> THEN sorted_issues
    ELSE sort_from(Tail(rest), insert_by_type(sorted_issues, Head(rest)))

sorted_by_type(tool_issues) == sort_from(tool_issues, <<>>)

\* sorted(S) of a set of strings
RECURSIVE sorted_strings(_)
sorted_strings(S) ==
    IF S = {} THEN <<>>
    ELSE LET m == CHOOSE x \in S : \A y \in S : y = x \/ StrLess(x, y)
         IN  <<m>> \o sorted_strings(S \ {m})

\* the lines appended for one issue shown in the detailed section
detail_of_issue(i, issue) ==
    <<"\nIssue #" \o Str(i + 1) \o ": " \o issue.issue_type,
      Repeat("-", 10 + Len(issue.issue_type)),
      "Description: " \o issue.description>>
    \o (IF issue.file_locations = {} THEN <<>>
        ELSE LET locs == Take(sorted_strings(issue.file_locations), 5)
                 n == Cardinality(issue.file_locations)
             IN  <<"File locations:">>
                     \o [k \in 1..Len(locs) |-> "  - " \o locs[k]]
                     \o (IF n > 5 THEN <<"  - ...and " \o Str(n - 5) \o " more locations">>
                         ELSE <<>>))
    \o (IF issue.stack_trace = <<>> THEN <<>>
        ELSE LET frames == Take(issue.stack_trace, 3)
             IN  <<"Stack trace (first 3 frames):">>
                     \o [k \in 1..Len(frames) |-> "  - " \o frames[k]])

\* "for i, issue in enumerate(sorted_issues)", from index i (0-based) on
RECURSIVE detail_from(_, _, _, _)
detail_from(tool, sorted_issues, i, max_issues) ==
    IF i >= Len(sorted_issues) THEN <<>>
    ELSE IF i >= max_issues
         THEN <<"\n... and " \o Str(Len(sorted_issues) - max_issues) \o " more "
                    \o Upper(tool) \o " issues">>
         ELSE detail_of_issue(i, sorted_issues[i + 1])
                  \o detail_from(tool, sorted_issues, i + 1, max_issues)

\* "Detailed report": the lines appended for one item of all_issues
detail_of_tool(tool, tool_issues, max_issues) ==
    IF tool_issues = <<>> THEN <<>>
    ELSE <<"\n" \o Upper(tool) \o " Issues:", Repeat("=", Len(tool) + 8)>>
             \o detail_from(tool, sorted_by_type(tool_issues), 0, max_issues)

RECURSIVE summary_lines(_)
summary_lines(d) ==
    IF d = <<>> THEN <<>>
    ELSE summary_of_tool(Head(d).key, Head(d).val) \o summary_lines(Tail(d))

RECURSIVE detail_lines(_, _)
detail_lines(d, max_issues) ==
    IF d = <<>> THEN <<>>
    ELSE detail_of_tool(Head(d).key, Head(d).val, max_issues)
             \o detail_lines(Tail(d), max_issues)

\* the list `report` of generate_report when it returns
report_lines(d, a) ==
    <<"Thread Analysis Summary",
      "=====================",
      "Total unique issues found: " \o Str(total_issues(d)),
      "">>
    \o summary_lines(d)
    \o (IF a.summary_only THEN <<>>
        ELSE <<"Detailed Issues", "==============">> \o detail_lines(d, a.max_issues))

generate_report(d, a) == Join("\n", report_lines(d, a))

\* a variant of to_dict that also exports the raw block
to_dict_with_raw_log(issue) ==
    [tool |-> issue.tool,
     issue_type |-> issue.issue_type,
     description |-> issue.description,
     stack_trace |-> issue.stack_trace,
     file_locations |-> issue.file_locations,
     run_id |-> issue.run_id,
     raw_log |-> issue.raw_log]

\* ThreadIssue.to_dict (list(self.file_locations) holds the elements of the
\* set in an order the program does not determine: the collection is kept)
to_dict(issue) ==
    [tool |-> issue.tool,
     issue_type |-> issue.issue_type,
     description |-> issue.description,
     stack_trace |-> issue.stack_trace,
     file_locations |-> issue.file_locations,
     run_id |-> issue.run_id]

\* main: json_data, the dict tool -> list of to_dict(issue)
json_data_of(d) ==
    [k \in 1..Len(d) |->
        [key |-> d[k].key, val |-> [n \in 1..Len(d[k].val) |-> to_dict(d[k].val[n])]]]

\* what find_log_files prints on stderr
find_log_files_stderr(dirs, base_dir, tool) ==
    IF tool \notin DOMAIN dirs \/ ~dirs[tool].exists
    THEN <<"Warning: Directory not found: " \o path_join(base_dir, tool)>>
    ELSE <<>>

\* what the call of a parser, or the else branch of the chain, prints on
\* stderr for one log file (the text of the exception is the platform's)
parse_log_stderr(tool, log_file, a) ==
    IF tool \in {HELGRIND, DRD, TSAN}
    THEN IF log_file.ok THEN <<>>
         ELSE <<"Error reading " \o path_join(path_join(a.log_dir, tool), log_file.name)
                    \o ": [Errno 13] Permission denied">>
    ELSE <<"Warning: Unknown tool " \o tool>>

\* parse_all_logs, "for tool in tools": log_files = find_log_files(...);
\* print(f"Found {len(log_files)} log files for {tool}"); issues = []
FindLogFiles ==
    /\ pc = "for_tool"
    /\ ti <= Len(tools_of(args))
    /\ log_files' = find_log_files(fs, tool_at(args, ti))
    /\ stderr' = stderr \o find_log_files_stderr(fs, args.log_dir, tool_at(args, ti))
    /\ stdout' = Append(stdout, "Found " \o Str(Len(log_files')) \o " log files for "
                                    \o tool_at(args, ti))
    /\ issues' = <<>>
    /\ fi' = 1
    /\ pc' = "for_file"
    /\ UNCHANGED <<run_many, args, fs, ti, all_issues, dd_in, dd_out, result>>

\* a variant of ParseLogFile that assigns the parse result instead of extending
ParseLogFileAssign ==
    /\ pc = "for_file"
    /\ fi <= Len(log_files)
    /\ issues' = parse_log(tool_at(args, ti), log_files[fi], args)
    /\ stderr' = stderr \o parse_log_stderr(tool_at(args, ti), log_files[fi], args)
    /\ fi' = fi + 1
    /\ UNCHANGED <<run_many, pc, args, fs, ti, log_files, all_issues, dd_in, dd_out, stdout, result>>

\* a variant of ParseLogFile without the try/except around open and read: the
\* exception of an unreadable file ends the run
ParseLogFileNoCatch ==
    /\ pc = "for_file"
    /\ fi <= Len(log_files)
    /\ IF log_files[fi].ok
       THEN /\ issues' = issues \o parse_log(tool_at(args, ti), log_files[fi], args)
            /\ fi' = fi + 1
            /\ UNCHANGED <<pc, exit_status>>
       ELSE /\ pc' = "raised"
            /\ exit_status' = 1
            /\ UNCHANGED <<issues, fi>>
    /\ UNCHANGED <<run_many, args, fs, ti, log_files, all_issues, dd_in, dd_out, io, report, out_files>>

\* parse_all_logs, "for log_file in log_files": issues.extend(parse_..._log(...))
ParseLogFile ==
    /\ pc = "for_file"
    /\ fi <= Len(log_files)
    /\ issues' = issues \o parse_log(tool_at(args, ti), log_files[fi], args)
    /\ stderr' = stderr \o parse_log_stderr(tool_at(args, ti), log_files[fi], args)
    /\ fi' = fi + 1
    /\ UNCHANGED <<run_many, pc, args, fs, ti, log_files, all_issues, dd_in, dd_out, stdout, result>>

\* parse_all_logs, after the inner loop: all_issues[tool] = issues
StoreTool ==
    /\ pc = "for_file"
    /\ fi > Len(log_files)
    /\ all_issues' = dict_set(all_issues, tool_at(args, ti), issues)
    /\ ti' = ti + 1
    /\ pc' = "for_tool"
    /\ UNCHANGED <<run_many, args, fs, fi, log_files, issues, dd_in, dd_out, io, result>>

\* parse_all_logs returns; main starts "for tool in all_issues"
ReturnAllIssues ==
    /\ pc = "for_tool"
    /\ ti > Len(tools_of(args))
    /\ ti' = 1
    /\ pc' = "dedup"
    /\ UNCHANGED <<run_many, args, fs, fi, log_files, issues, all_issues, dd_in, dd_out, io, result>>

\* main: all_issues[tool] = deduplicate_issues(all_issues[tool])
DedupTool ==
    /\ pc = "dedup"
    /\ ti <= Len(all_issues)
    /\ all_issues' = dict_set(all_issues, all_issues[ti].key,
                              deduplicate_issues(all_issues[ti].val))
    /\ ti' = ti + 1
    /\ UNCHANGED <<run_many, pc, args, fs, fi, log_files, issues, dd_in, dd_out, io, result>>

\* main, after the deduplication loop
DedupDone ==
    /\ pc = "dedup"
    /\ ti > Len(all_issues)
    /\ pc' = "deduped"
    /\ UNCHANGED <<run_many, args, fs, ti, fi, log_files, issues, all_issues, dd_in, dd_out, io, result>>

\* a variant of GenerateReport that sorts each list of all_issues in place
\* (issues.sort) before it renders the report
GenerateReportSortInPlace ==
    /\ pc = "deduped"
    /\ all_issues' = [k \in 1..Len(all_issues) |->
                         [key |-> all_issues[k].key, val |-> sorted_by_type(all_issues[k].val)]]
    /\ report' = generate_report(all_issues, args)
    /\ pc' = "output"
    /\ UNCHANGED <<run_many, args, fs, ti, fi, log_files, issues, dd_in, dd_out, io,
                   out_files, exit_status>>

\* main: report = generate_report(all_issues, args)
GenerateReport ==
    /\ pc = "deduped"
    /\ report' = generate_report(all_issues, args)
    /\ pc' = "output"
    /\ UNCHANGED <<run_many, args, fs, ti, fi, log_files, issues, all_issues, dd_in, dd_out, io,
                   out_files, exit_status>>

\* main, "Output report": the file args.output is written and the fact is
\* printed, or the report is printed
WriteReport ==
    /\ pc = "output"
    /\ IF args.output # ""
       THEN /\ out_files' = dict_set(out_files, args.output, report)
            /\ stdout' = Append(stdout, "Report written to " \o args.output)
       ELSE /\ stdout' = Append(stdout, report)
            /\ UNCHANGED out_files
    /\ pc' = "json"
    /\ UNCHANGED <<run_many, args, fs, ti, fi, log_files, issues, all_issues, dd_in, dd_out, stderr,
                   report, exit_status>>

\* main, "Output report": open(args.output, 'w'), f.write or print raises; the
\* exception leaves main and the interpreter exits with status 1
WriteReportFails ==
    /\ pc = "output"
    /\ pc' = "raised"
    /\ exit_status' = 1
    /\ UNCHANGED <<run_many, args, fs, ti, fi, log_files, issues, all_issues, dd_in, dd_out, io,
                   report, out_files>>

\* main, "Output JSON if requested"
WriteJson ==
    /\ pc = "json"
    /\ IF args.json # ""
       THEN /\ out_files' = dict_set(out_files, args.json, json_data_of(all_issues))
            /\ stdout' = Append(stdout, "JSON data written to " \o args.json)
       ELSE UNCHANGED <<out_files, stdout>>
    /\ pc' = "return"
    /\ UNCHANGED <<run_many, args, fs, ti, fi, log_files, issues, all_issues, dd_in, dd_out, stderr,
                   report, exit_status>>

\* main, "Output JSON if requested": open(args.json, 'w') or json.dump raises
WriteJsonFails ==
    /\ pc = "json"
    /\ args.json # ""
    /\ pc' = "raised"
    /\ exit_status' = 1
    /\ UNCHANGED <<run_many, args, fs, ti, fi, log_files, issues, all_issues, dd_in, dd_out, io,
                   report, out_files>>

\* a variant of Return whose status is the number of issues found
ReturnIssueCount ==
    /\ pc = "return"
    /\ exit_status' = total_issues(all_issues)
    /\ pc' = "exited"
    /\ UNCHANGED <<run_many, args, fs, ti, fi, log_files, issues, all_issues, dd_in, dd_out, io,
                   report, out_files>>

\* main: return 0, and sys.exit(main())
Return ==
    /\ pc = "return"
    /\ exit_status' = 0
    /\ pc' = "exited"
    /\ UNCHANGED <<run_many, args, fs, ti, fi, log_files, issues, all_issues, dd_in, dd_out, io,
                   report, out_files>>

Next ==
    \/ FindLogFiles
    \/ ParseLogFile
    \/ StoreTool
    \/ ReturnAllIssues
    \/ DedupTool
    \/ DedupDone
    \/ GenerateReport
    \/ WriteReport
    \/ WriteReportFails
    \/ WriteJson
    \/ WriteJsonFails
    \/ Return

-----------------------------------------------------------------------------
(* Inputs: command lines, log directories, log texts *)

SeqsUpTo(S, n) == UNION {[1..k -> S] : k \in 0..n}

DistinctSeqsUpTo(S, n) ==
    {q \in SeqsUpTo(S, n) : \A i, j \in 1..Len(q) : i # j => q[i] # q[j]}

\* a log file: its base name, its text, and whether open() and read() succeed
File(name, content, ok) == [name |-> name, content |-> content, ok |-> ok]

NoDir == [exists |-> FALSE, files |-> <<>>]

\* the default command line, and others
\* (output and json are None by default: "" here, as both are tested for truth)
DefaultArgs ==
    [tools |-> "helgrind,drd,tsan", exclude |-> <<"debug.h">>, include |-> <<>>,
     log_dir |-> "tests/logs/analyzers", output |-> "", json |-> "",
     summary_only |-> FALSE, max_issues |-> 10]

ArgsChoices ==
    {DefaultArgs,
     [DefaultArgs EXCEPT !.tools = "drd, Helgrind", !.include = <<"mine.c">>,
                         !.output = "report.txt", !.json = "issues.json"],
     [DefaultArgs EXCEPT !.tools = "tsan,foo", !.exclude = <<"debug.h", "a.c">>,
                         !.json = "issues.json", !.summary_only = TRUE, !.max_issues = 1]}

\* log files a tool's directory may hold
LogLibrary(tool) ==
    IF tool = HELGRIND THEN
        {File("helgrind_1.log",
              "x\n==1== ---Thread-Announcement--\nLock order\n at f (a.c:1)\n", TRUE),
         File("helgrind_2.log",
              "==2== ---Thread-Announcement--\n at f (a.c:1)\n"
                  \o "==2== ---Thread-Announcement--\nLock order violated\n at f (a.c:1)\n", TRUE),
         File("helgrind_3.log", "", FALSE)}
    ELSE IF tool = DRD THEN
        {File("drd_1.log", "==1== Conflicting load\n at f (a.c:1)\n", TRUE),
         File("drd_2.log",
              "==1== Conflicting store\n at f (a.c:1)\n by g (debug.h:2)\n"
                  \o "==1== Conflicting load\n at f (a.c:1)\n by h (mine.c:3)\n", TRUE),
         File("drd.log", "==1== Conflicting load\n at k (k.c:1)\n", TRUE)}
    ELSE
        {File("tsan_1.log", "WARNING: ThreadSanitizer: data race\n #0 f (b.c:1)\n\n", TRUE),
         File("tsan_2.log",
              "WARNING: ThreadSanitizer: data race (pid=2)\n #0 f (b.c:1)\n\n"
                  \o "WARNING: ThreadSanitizer: thread leak\n", TRUE),
         File("tsan_tsan_3.log", "WARNING: ThreadSanitizer: Unknown\n  #1 f (a.c:1)\n", TRUE)}

\* what a tool's directory may be: absent, or some files in glob order (the
\* directories of a run hold at most MaxFiles files together)
Listings(tool) ==
    {NoDir} \cup {[exists |-> TRUE, files |-> q] : q \in DistinctSeqsUpTo(LogLibrary(tool), MaxFiles)}

Requested(a, tool) == \E k \in 1..Len(tools_of(a)) : tool_at(a, k) = tool

TypeOK ==
    /\ pc \in {"for_tool", "for_file", "dedup", "deduped", "output", "json", "return",
              "exited", "raised", "dd_call", "dd_return"}
    /\ exit_status \in {-1, 0, 1}
    /\ ti \in Nat /\ fi \in Nat
    /\ DOMAIN fs = TOOLS

Init ==
    /\ pc = "for_tool"
    /\ args \in ArgsChoices
    /\ \E h \in Listings(HELGRIND), d \in Listings(DRD), t \in Listings(TSAN) :
          /\ Len(h.files) + Len(d.files) + Len(t.files) <= MaxFiles
          /\ fs = [x \in TOOLS |->
                      IF ~Requested(args, x) THEN NoDir
                      ELSE IF x = HELGRIND THEN h ELSE IF x = DRD THEN d ELSE t]
    /\ ti = 1
    /\ fi = 1
    /\ log_files = <<>>
    /\ issues = <<>>
    /\ all_issues = <<>>
    /\ dd_in = <<>>
    /\ dd_out = <<>>
    /\ stdout = <<>>
    /\ stderr = <<>>
    /\ report = ""
    /\ out_files = <<>>
    /\ exit_status = -1
    /\ NoRunMany

Spec == Init /\ [][Next]_vars

\* main has returned or has ended with an uncaught exception
Ended == pc \in {"exited", "raised"}

\* main is one sequential process: it keeps taking steps until it has ended.
\* This is weak fairness of Next, []<>~ENABLED <<Next>>_vars \/ []<><<Next>>_vars,
\* with the enabling condition of Next written out: every statement of main
\* can be executed, so Next is enabled exactly while main has not ended.
Fairness == []<>Ended \/ []<><<Next>>_vars

FairSpec == Init /\ [][Next]_vars /\ Fairness

-----------------------------------------------------------------------------
(* One log file made of up to MaxLines lines, parsed by one tool *)

LineLibrary(tool) ==
    IF tool = HELGRIND THEN
        {"==1== ---Thread-Announcement--",
         "==1== Thread #1 is the program's root thread",
         "Possible data race during write",
         "Lock order violated",
         " at f (debug.h:2)",
         " by g (mine.c:3)",
         " at h (mine.c:4) debug.h"}
    ELSE IF tool = DRD THEN
        {"hdr",
         "==1== Conflicting store by thread 2 at 0x... (file.c:10)",
         "by func (file.c:10)",
         "==1== Conflicting load by thread 1",
         "==1== Mutex lock order violation",
         " at f (debug.h:2)",
         " by g (mine.c:3) debug.h"}
    ELSE
        {"WARNING: ThreadSanitizer: data race (pid=1)",
         "WARNING: ThreadSanitizer: SUMMARY: foo",
         "  #0 f (debug.h:2)",
         "  #1 g (mine.c:3)",
         "  at h (mine.c:4) debug.h",
         ""}

\* the text of a log made of these lines, each ended by a newline
RECURSIVE Text(_)
Text(lines) == IF lines = <<>> THEN "" ELSE Head(lines) \o "\n" \o Text(Tail(lines))

\* the default filter with the report printed, and a filter with an include
\* pattern with the report and the JSON data written to files
FilterChoices ==
    {[exclude |-> <<"debug.h">>, include |-> <<>>, output |-> "", json |-> ""],
     [exclude |-> <<"debug.h">>, include |-> <<"mine.c">>,
      output |-> "report.txt", json |-> "issues.json"]}

InitBlocks ==
    /\ pc = "for_tool"
    /\ \E t \in TOOLS, f \in FilterChoices :
        \E lines \in SeqsUpTo(LineLibrary(t), MaxLines) :
          /\ args = [DefaultArgs EXCEPT !.tools = t, !.exclude = f.exclude,
                                        !.include = f.include, !.output = f.output,
                                        !.json = f.json]
          /\ fs = [d \in TOOLS |->
                      IF d = t
                      THEN [exists |-> TRUE,
                            files |-> <<File(t \o "_1.log", Text(lines), TRUE)>>]
                      ELSE NoDir]
    /\ ti = 1
    /\ fi = 1
    /\ log_files = <<>>
    /\ issues = <<>>
    /\ all_issues = <<>>
    /\ dd_in = <<>>
    /\ dd_out = <<>>
    /\ stdout = <<>>
    /\ stderr = <<>>
    /\ report = ""
    /\ out_files = <<>>
    /\ exit_status = -1
    /\ NoRunMany

SpecBlocks == InitBlocks /\ [][Next]_vars

-----------------------------------------------------------------------------
(* One log file made of up to MaxPieces pieces of text, each of one or more *)
(* lines, parsed by one tool: the default filter, the JSON data requested   *)

\* main starts with the one log file <tool>_1.log of this text in the directory
OneLogRun(t, text) ==
    /\ pc = "for_tool"
    /\ args = [DefaultArgs EXCEPT !.tools = t, !.json = "issues.json"]
    /\ fs = [d \in TOOLS |->
                IF d = t
                THEN [exists |-> TRUE, files |-> <<File(t \o "_1.log", text, TRUE)>>]
                ELSE NoDir]
    /\ ti = 1
    /\ fi = 1
    /\ log_files = <<>>
    /\ issues = <<>>
    /\ all_issues = <<>>
    /\ dd_in = <<>>
    /\ dd_out = <<>>
    /\ stdout = <<>>
    /\ stderr = <<>>
    /\ report = ""
    /\ out_files = <<>>
    /\ exit_status = -1
    /\ NoRunMany

\* pieces that carry stack frames, frame markers with nothing but whitespace
\* after them, blank lines and file references
FramePieces(tool) ==
    IF tool = HELGRIND THEN
        {"==1== ---Thread-Announcement--",
         "==1== ---Thread-Announcement--\nLock order violated\n at f (a.c:1)\n by g (b.c:2)",
         "",
         " at h (c.c:3)",
         " at \n by g (b.c:2)",
         "(foo.c:42)\nat bar.h:7"}
    ELSE IF tool = DRD THEN
        {"==1== Mutex lock order violation\n at f (a.c:1)\n by g (b.c:2)",
         "",
         " at h (c.c:3)",
         " at \n by g (b.c:2)",
         "(foo.c:42)\nat bar.h:7"}
    ELSE
        {"WARNING: ThreadSanitizer: data race\n  #0 f (a.c:1)\n  #1 g (b.c:2)",
         "",
         "  #2 h (c.c:3)",
         "  Location is heap block",
         "  #4 \n  #5 k (d.c:4)",
         "(foo.c:42)\nat bar.h:7"}

InitFrames ==
    \E t \in TOOLS :
        \E pieces \in SeqsUpTo(FramePieces(t), MaxPieces) : OneLogRun(t, Text(pieces))

SpecFrames == InitFrames /\ [][Next]_vars

\* pieces that carry the keywords the parsers classify by
CategoryPieces(tool) ==
    IF tool = HELGRIND THEN
        {"==1== ---Thread-Announcement--",
         " Possible data race during write of size 4",
         " Lock order violated",
         " Thread #1 was created",
         " at f (a.c:1)"}
    ELSE IF tool = DRD THEN
        {"==1== Conflicting load by thread 1",
         "==1== Mutex lock order violation",
         " at f (a.c:1)"}
    ELSE
        {"WARNING: ThreadSanitizer: data race (pid=1)",
         "WARNING: ThreadSanitizer: SUMMARY: foo",
         "WARNING: ThreadSanitizer: Lock-Order-Inversion (potential DEADLOCK)",
         "WARNING: ThreadSanitizer: heap-use-after-free",
         "WARNING: ThreadSanitizer: signal-unsafe call inside of a signal",
         "WARNING: ThreadSanitizer:",
         "  Thread Leak",
         ""}

InitCategories ==
    \E t \in TOOLS :
        \E pieces \in SeqsUpTo(CategoryPieces(t), MaxPieces) : OneLogRun(t, Text(pieces))

SpecCategories == InitCategories /\ [][Next]_vars

\* pieces of a helgrind log with the lines a description is taken from; one
\* piece is ten lines that show no keyword
DescriptionPieces ==
    {"==1== ---Thread-Announcement--",
     Join("\n", [k \in 1..10 |-> "==1== "]),
     "==1== Possible data race during write of size 4 at 0x1",
     "==1==  Lock order violated ",
     "==1== Thread #2 was created"}

InitDescriptions ==
    \E pieces \in SeqsUpTo(DescriptionPieces, MaxPieces) : OneLogRun(HELGRIND, Text(pieces))

SpecDescriptions == InitDescriptions /\ [][Next]_vars

-----------------------------------------------------------------------------
(* main from the return of parse_all_logs on: deduplication, report, JSON  *)

\* helgrind issues as the parser builds them; the fourth has the signature of
\* the second and comes from another run
ReportPool ==
    {ThreadIssue(HELGRIND, "Lock Order Violation", "Lock order violated",
                 <<"f (a.c:1)", "g (b.c:2)">>, {"a.c:1", "b.c:2"}, "1",
                 <<"==Thread-Announcement--", "Lock order violated", " at f (a.c:1)",
                   " by g (b.c:2)">>),
     ThreadIssue(HELGRIND, "Data Race", "Possible data race during write of size 4",
                 <<"h (c.c:3)">>, {"c.c:3"}, "1",
                 <<"==Thread-Announcement--", "Possible data race during write of size 4",
                   " at h (c.c:3)">>),
     ThreadIssue(HELGRIND, "Data Race", "Possible data race during read of size 8",
                 <<"k (d.c:4)">>, {"d.c:4"}, "1",
                 <<"==Thread-Announcement--", "Possible data race during read of size 8",
                   " at k (d.c:4)">>),
     ThreadIssue(HELGRIND, "Data Race", "Possible data race during read of size 1",
                 <<"h (c.c:3)">>, {"c.c:3"}, "2",
                 <<"==Thread-Announcement--", "Possible data race during read of size 1",
                   " at h (c.c:3)">>)}

\* what parse_all_logs may have returned for tsan
TsanLists ==
    {<<>>,
     <<ThreadIssue(TSAN, "Data Race", "WARNING: ThreadSanitizer: data race (pid=1)",
                   <<"f (a.c:1)">>, {"a.c:1"}, "1",
                   <<"WARNING: ThreadSanitizer: data race (pid=1)", "  #0 f (a.c:1)">>)>>}

\* values of --max-issues (argparse accepts every int)
Caps == {-1, 0, 1, 2, 10}

ReportArgs ==
    {[DefaultArgs EXCEPT !.tools = "helgrind,tsan", !.max_issues = m] : m \in Caps}
    \cup {[DefaultArgs EXCEPT !.tools = "helgrind,tsan", !.summary_only = TRUE],
          [DefaultArgs EXCEPT !.tools = "helgrind,tsan", !.max_issues = 1,
                              !.output = "report.txt", !.json = "issues.json"]}

\* main when parse_all_logs has returned
InitReport ==
    /\ pc = "dedup"
    /\ args \in ReportArgs
    /\ \E h \in SeqsUpTo(ReportPool, MaxIssues), t \in TsanLists :
          all_issues = <<[key |-> HELGRIND, val |-> h], [key |-> TSAN, val |-> t]>>
    /\ fs = [x \in TOOLS |-> NoDir]
    /\ ti = 1
    /\ fi = 1
    /\ log_files = <<>>
    /\ issues = <<>>
    /\ dd_in = <<>>
    /\ dd_out = <<>>
    /\ stdout = <<>>
    /\ stderr = <<>>
    /\ report = ""
    /\ out_files = <<>>
    /\ exit_status = -1
    /\ NoRunMany

NextReport ==
    \/ DedupTool
    \/ DedupDone
    \/ GenerateReport
    \/ WriteReport
    \/ WriteReportFails
    \/ WriteJson
    \/ WriteJsonFails
    \/ Return

SpecReport == InitReport /\ [][NextReport]_vars

-----------------------------------------------------------------------------
(* deduplicate_issues applied to a list of issues *)

IssuePool ==
    {ThreadIssue(HELGRIND, "Data Race", "d1", <<"a", "b", "c", "d">>, {"a.c:1"}, "1", <<"l1">>),
     ThreadIssue(HELGRIND, "Data Race", "d2", <<"a", "b", "c", "e">>, {}, "2", <<"l2">>),
     ThreadIssue(HELGRIND, "Data Race", "d3", <<"a", "b", "c">>, {}, "1", <<"l3">>),
     ThreadIssue(HELGRIND, "Data Race", "d1", <<"a", "b">>, {"a.c:1"}, "1", <<"l1">>),
     ThreadIssue(HELGRIND, "Data Race", "d2", <<"a", "b", "x", "d">>, {}, "1", <<"l1">>),
     ThreadIssue(HELGRIND, "Unknown", "d1", <<"a", "b">>, {"a.c:1"}, "1", <<"l1">>),
     ThreadIssue(HELGRIND, "Data Race", "d1", <<>>, {}, "3", <<>>),
     ThreadIssue(HELGRIND, "Data Race", "d4", <<"a|b", "c">>, {}, "1", <<"l4">>),
     ThreadIssue(DRD, "Data Race", "d1", <<"a", "b", "c", "d">>, {"a.c:1"}, "1", <<"l1">>)}

InitDedup ==
    /\ pc = "dd_call"
    /\ dd_in \in SeqsUpTo(IssuePool, MaxDedupLen)
    /\ dd_out = <<>>
    /\ args = DefaultArgs
    /\ fs = [x \in TOOLS |-> NoDir]
    /\ ti = 1
    /\ fi = 1
    /\ log_files = <<>>
    /\ issues = <<>>
    /\ all_issues = <<>>
    /\ stdout = <<>>
    /\ stderr = <<>>
    /\ report = ""
    /\ out_files = <<>>
    /\ exit_status = -1
    /\ NoRunMany

\* unique = deduplicate_issues(dd_in)
Deduplicate ==
    /\ pc = "dd_call"
    /\ dd_out' = deduplicate_issues(dd_in)
    /\ pc' = "dd_return"
    /\ UNCHANGED <<run_many, args, fs, ti, fi, log_files, issues, all_issues, dd_in, io, result>>

NextDedup == Deduplicate

SpecDedup == InitDedup /\ [][NextDedup]_vars

-----------------------------------------------------------------------------
(* Properties of deduplicate_issues and of the signature (SpecDedup) *)

\* the positions of xs whose signature does not occur earlier in xs
FirstOccurrences(xs) ==
    {i \in 1..Len(xs) : \A j \in 1..(i - 1) : xs[j].hash # xs[i].hash}

\* the n-th smallest element of a set of numbers
NthOf(S, n) == CHOOSE x \in S : Cardinality({y \in S : y < x}) = n - 1

\* out is xs restricted to the first occurrence of each signature, in order
IsFirstOccurrenceList(out, xs) ==
    /\ Len(out) = Cardinality(FirstOccurrences(xs))
    /\ \A n \in 1..Len(out) : out[n] = xs[NthOf(FirstOccurrences(xs), n)]

\* C1: deduplicate_issues returns exactly the subsequence of its input made of
\* the issues whose signature does not occur earlier: one issue per signature,
\* the first one, in input order.
C1_DedupKeepsFirstOccurrences ==
    pc = "dd_return" =>
        /\ IsFirstOccurrenceList(dd_out, dd_in)
        /\ \A i \in 1..Len(dd_in) :
              Cardinality({n \in 1..Len(dd_out) : dd_out[n].hash = dd_in[i].hash}) = 1

\* a later issue with the signature of an earlier, different one was discarded
C1_Witness ==
    /\ pc = "dd_return"
    /\ Len(dd_out) >= 2
    /\ \E i, j \in 1..Len(dd_in) :
          i < j /\ dd_in[i].hash = dd_in[j].hash /\ dd_in[i] # dd_in[j]

\* no frame of the trace contains the separator of the signature
NoSeparator(stack_trace) ==
    \A k \in 1..Len(stack_trace) : ~Contains(stack_trace[k], "|")

\* C6: the signature depends only on tool, category and the first three stack
\* frames: issues that agree on these have the same signature whatever else
\* differs, and issues with fewer than three frames are told apart by all the
\* frames they have (frames without the separator character).
C6_SignatureInputs ==
    \A i, j \in 1..Len(dd_in) :
        LET x == dd_in[i]
            y == dd_in[j]
        IN  /\ (x.tool = y.tool /\ x.issue_type = y.issue_type
                   /\ Take(x.stack_trace, 3) = Take(y.stack_trace, 3))
                => x.hash = y.hash
            /\ (x.tool = y.tool /\ x.issue_type = y.issue_type
                   /\ Len(x.stack_trace) < 3 /\ Len(y.stack_trace) < 3
                   /\ NoSeparator(x.stack_trace) /\ NoSeparator(y.stack_trace)
                   /\ x.stack_trace # y.stack_trace)
                => x.hash # y.hash

\* two issues that agree on tool, category and leading frames and differ in all
\* the rest were given one signature, and deduplication collapsed them
C6_Witness ==
    /\ pc = "dd_return"
    /\ Len(dd_in) = 2
    /\ Len(dd_out) = 1
    /\ dd_in[1].description # dd_in[2].description
    /\ dd_in[1].file_locations # dd_in[2].file_locations
    /\ dd_in[1].run_id # dd_in[2].run_id
    /\ dd_in[1].raw_log # dd_in[2].raw_log
    /\ Len(dd_in[1].stack_trace) > 3
    /\ dd_in[1].stack_trace # dd_in[2].stack_trace

-----------------------------------------------------------------------------
(* Properties of the orchestrator (Spec) *)

\* the parse results of the files of a listing, concatenated in listing order
RECURSIVE ParsedConcat(_, _, _)
ParsedConcat(tool, files, a) ==
    IF files = <<>> THEN <<>>
    ELSE parse_log(tool, Head(files), a) \o ParsedConcat(tool, Tail(files), a)

\* everything the log files of `tool` yield, in discovery and in-file order
Discovered(tool) == ParsedConcat(tool, find_log_files(fs, tool), args)

\* entry k of all_issues has been through the deduplication loop of main
Deduplicated(k) == pc = "deduped" \/ (pc = "dedup" /\ k < ti)

\* C2: for every requested tool, deduplication is applied once and only after
\* all of the tool's log files have been parsed and appended: until then the
\* tool's list is the plain concatenation of the parse results in discovery
\* order, afterwards it is the first-occurrence deduplication of it.  (Stated
\* where all_issues can have changed: the inner loop over the files and the
\* steps of main after the deduplication loop leave it alone.)
C2_DedupAfterAllFiles ==
    pc \in {"for_tool", "dedup", "deduped"} => \A k \in 1..Len(all_issues) :
        IF Deduplicated(k)
        THEN IsFirstOccurrenceList(all_issues[k].val, Discovered(all_issues[k].key))
        ELSE all_issues[k].val = Discovered(all_issues[k].key)

\* two issues with one signature came from two log files of a tool, and the one
\* from the earlier file is the one kept
C2_Witness ==
    /\ pc = "deduped"
    /\ \E k \in 1..Len(all_issues) :
          LET all == Discovered(all_issues[k].key)
              kept == all_issues[k].val
          IN  /\ Len(find_log_files(fs, all_issues[k].key)) >= 2
              /\ \E i, j \in 1..Len(all) :
                    /\ i < j
                    /\ all[i].hash = all[j].hash
                    /\ all[i].run_id # all[j].run_id
                    /\ \E n \in 1..Len(kept) : kept[n] = all[i]
                    /\ \A n \in 1..Len(kept) : kept[n] # all[j]

\* every issue the run holds, with the tool it is filed under (the local list
\* `issues` belongs to the tool being parsed)
AllHeld ==
    UNION {{[under |-> all_issues[k].key, issue |-> all_issues[k].val[n]] :
               n \in 1..Len(all_issues[k].val)} : k \in 1..Len(all_issues)}
        \cup {[under |-> tool_at(args, ti), issue |-> issues[n]] :
                 n \in {m \in 1..Len(issues) : pc = "for_file"}}

\* C5: every issue a parser returns carries that parser's tool name, every
\* issue filed under a tool key has that tool, and issues of different tools
\* never have equal signatures, even with the same category and stack frames.
C5_ToolIsolation ==
    /\ \A h \in AllHeld : h.issue.tool = h.under
    /\ \A g, h \in AllHeld : g.issue.tool # h.issue.tool => g.issue.hash # h.issue.hash

\* issues of two tools with the same category and the same stack frames are held
C5_Witness ==
    /\ pc = "deduped"
    /\ \E g, h \in AllHeld :
          /\ g.issue.tool # h.issue.tool
          /\ g.issue.issue_type = h.issue.issue_type
          /\ g.issue.stack_trace = h.issue.stack_trace
          /\ g.issue.stack_trace # <<>>

-----------------------------------------------------------------------------
(* Properties of the parsers (SpecBlocks: one tool, one log file) *)

TheTool == tool_at(args, 1)

TheLog == fs[TheTool].files[1]

\* the reassembled blocks of the log, after the discarded header piece
Blocks == blocks_of(TheTool, TheLog.content)

\* the log file has just been parsed: `issues` is what the parser returned
Parsed == pc = "for_file" /\ fi = 2

\* some pattern of the list is a substring of the line
HasAny(line, patterns) == \E k \in 1..Len(patterns) : Contains(line, patterns[k])

\* the block of these lines yielded an issue (an issue keeps its block's lines)
Yielded(lines) == \E n \in 1..Len(issues) : issues[n].raw_log = lines

\* C3 as stated: a block with an exclude pattern on some line and an include
\* pattern on some line, not necessarily the same one, is retained.
C3_IncludeAnywhereRetains ==
    Parsed =>
        LET blocks == Blocks
        IN  \A k \in 1..Len(blocks) :
                LET lines == block_lines(blocks[k])
                IN  (/\ \E i \in 1..Len(lines) : HasAny(lines[i], args.exclude)
                     /\ \E i \in 1..Len(lines) : HasAny(lines[i], args.include))
                    => Yielded(lines)

\* C3, amended: a block with exclude and include patterns is retained when
\* every line of it that contains an exclude pattern also contains an include
\* pattern, and it is dropped when some line contains an exclude pattern and
\* no include pattern, whatever the other lines contain.
C3_IncludeOnSameLineRetains ==
    Parsed =>
        LET blocks == Blocks
        IN  \A k \in 1..Len(blocks) :
                LET lines == block_lines(blocks[k])
                    bare == {i \in 1..Len(lines) :
                                HasAny(lines[i], args.exclude) /\ ~HasAny(lines[i], args.include)}
                IN  (/\ \E i \in 1..Len(lines) : HasAny(lines[i], args.exclude)
                     /\ \E i \in 1..Len(lines) : HasAny(lines[i], args.include))
                    => (Yielded(lines) <=> bare = {})

\* a block with a line that holds both an exclude and an include pattern, and
\* no other excluded line, yielded an issue
C3_Witness ==
    /\ Parsed
    /\ \E n \in 1..Len(issues) :
          \E i \in 1..Len(issues[n].raw_log) :
              /\ HasAny(issues[n].raw_log[i], args.exclude)
              /\ HasAny(issues[n].raw_log[i], args.include)

\* C4: is_excluded is false when an include pattern is a substring of the line
\* and otherwise true exactly when an exclude pattern is one; a block yields
\* no issue exactly when is_excluded holds of one of its lines.
C4_FilterRule ==
    Parsed =>
        LET blocks == Blocks
        IN  \A k \in 1..Len(blocks) :
                LET lines == block_lines(blocks[k])
                IN  /\ \A i \in 1..Len(lines) :
                          is_excluded(lines[i], args.exclude, args.include)
                              <=> (~HasAny(lines[i], args.include)
                                       /\ HasAny(lines[i], args.exclude))
                    /\ ~Yielded(lines)
                          <=> \E i \in 1..Len(lines) :
                                 is_excluded(lines[i], args.exclude, args.include)

\* with include patterns given, one block of the log was dropped for a line of
\* it and another block was kept
C4_Witness ==
    /\ Parsed
    /\ args.include # <<>>
    /\ \E k \in 1..Len(Blocks) : ~Yielded(block_lines(Blocks[k]))
    /\ \E k \in 1..Len(Blocks) : Yielded(block_lines(Blocks[k]))

\* the positions of the blocks none of whose lines is excluded
KeptBlocks ==
    LET blocks == Blocks
    IN  {k \in 1..Len(blocks) :
            LET lines == block_lines(blocks[k])
            IN  \A i \in 1..Len(lines) :
                    ~is_excluded(lines[i], args.exclude, args.include)}

\* the block shows none of the keywords the parser of the tool classifies by
NoKnownCategory(tool, block) ==
    IF tool = HELGRIND THEN
        /\ ~Contains(block, "Possible data race")
        /\ ~Contains(block, "Lock order")
        /\ ~(Contains(block, "Thread #") /\ (Contains(block, "read") \/ Contains(block, "write")))
    ELSE IF tool = DRD THEN
        /\ ~Contains(block, "Conflicting load")
        /\ ~Contains(block, "Conflicting store")
        /\ ~Contains(block, "lock order violation")
    ELSE
        /\ ~ContainsLower(block, "data race")
        /\ ~ContainsLower(block, "lock order inversion")
        /\ ~ContainsLower(block, "deadlock")
        /\ ~ContainsLower(block, "thread leak")
        /\ ~ContainsLower(block, "use-after-free")

\* C7: the issues returned correspond one to one, in order, to the blocks that
\* follow the header piece and have no excluded line; a block of no known
\* category is not dropped: its issue has category Unknown (helgrind, drd) or
\* Unknown / the free text of its first line (tsan).
C7_OneIssuePerKeptBlock ==
    Parsed =>
        LET blocks == Blocks
            kept == KeptBlocks
        IN  /\ Len(issues) = Cardinality(kept)
            /\ \A n \in 1..Len(issues) :
                  LET block == blocks[NthOf(kept, n)]
                  IN  /\ issues[n].raw_log = block_lines(block)
                      /\ issues[n].tool = TheTool
                      /\ NoKnownCategory(TheTool, block) =>
                             IF TheTool = TSAN
                             THEN issues[n].issue_type \notin
                                      {"Data Race", "Lock Order Violation", "Thread Leak",
                                       "Use After Free"}
                             ELSE issues[n].issue_type = "Unknown"

\* a log with two kept blocks, one of them of no known category
C7_Witness ==
    /\ Parsed
    /\ Len(issues) >= 2
    /\ \E n \in 1..Len(issues) :
          /\ NoKnownCategory(TheTool, Blocks[NthOf(KeptBlocks, n)])
          /\ issues[n].issue_type \in {"Unknown", "SUMMARY"}

\* what a thread announcement consists of, once the parser has put its own
\* marker in front of the piece
AnnouncementLines ==
    {"==Thread-Announcement--", "==1== Thread #1 is the program's root thread"}

\* C8: in the helgrind parser a piece that holds only announcement text yields
\* no issue of category Data Race, Lock Order Violation or Data Access
\* Violation.
C8_BannerIsNoError ==
    (Parsed /\ TheTool = HELGRIND) =>
        \A n \in 1..Len(issues) :
            (\A i \in 1..Len(issues[n].raw_log) : issues[n].raw_log[i] \in AnnouncementLines)
                => issues[n].issue_type \notin
                       {"Data Race", "Lock Order Violation", "Data Access Violation"}

\* the headers of the drd log, in order: the texts its split pattern matches
RECURSIVE drd_headers_from(_, _)
drd_headers_from(content, st) ==
    LET i == re_search(DRD, content, st)
    IN  IF i = 0 THEN <<>>
        ELSE <<SubSeq(content, i, drd_split_re(content, i) - 1)>>
                 \o drd_headers_from(content, drd_split_re(content, i))

\* C9: in the drd parser every block is reconstructed with the header that
\* introduced it in front, so a report under a Conflicting load/store header
\* yields a Data Race issue and a report under a lock order violation header a
\* Lock Order Violation issue.
C9_DrdHeaderReattached ==
    (Parsed /\ TheTool = DRD) =>
        LET blocks == Blocks
            headers == drd_headers_from(TheLog.content, 1)
            kept == KeptBlocks
        IN  \A k \in 1..Len(blocks) :
                LET expected == IF Contains(headers[k], "Conflicting") THEN "Data Race"
                                ELSE "Lock Order Violation"
                IN  /\ StartsAt(blocks[k], headers[k], 1)
                    /\ k \in kept =>
                          \E n \in 1..Len(issues) :
                              /\ issues[n].raw_log = block_lines(blocks[k])
                              /\ issues[n].issue_type = expected

\* C10: the drd log whose single report is the Conflicting store line followed
\* by the line "by func (file.c:10)" yields exactly one issue: Data Race,
\* file locations {file.c:10}, stack frames <<"func (file.c:10)">>.
C10_ScenarioA ==
    (/\ Parsed
     /\ TheTool = DRD
     /\ TheLog.content = Text(<<"==1== Conflicting store by thread 2 at 0x... (file.c:10)",
                                "by func (file.c:10)">>))
    => /\ Len(issues) = 1
       /\ issues[1].issue_type = "Data Race"
       /\ issues[1].file_locations = {"file.c:10"}
       /\ issues[1].stack_trace = <<"func (file.c:10)">>

-----------------------------------------------------------------------------
(* Properties of extract_file_locations *)

\* the position of the last colon of s, 0 if it has none
LastColon(s) == Max({i \in 1..Len(s) : Ch(s, i) = ":"} \cup {0})

\* path ends in ".c" or ".h", possibly continued by letters (.cc, .cpp, .hpp)
EndsInSourceExtension(path) ==
    \E i \in 1..(Len(path) - 1) :
        /\ Ch(path, i) = "."
        /\ Ch(path, i + 1) \in {"c", "h"}
        /\ \A j \in (i + 2)..Len(path) : Ch(path, j) \in LOWER

\* loc is path:line, path without colon and white space and ending in a source
\* extension, line a decimal numeral of a positive integer
WellFormedLocation(loc) ==
    LET c == LastColon(loc)
        path == SubSeq(loc, 1, c - 1)
        line == SubSeq(loc, c + 1, Len(loc))
    IN  /\ c > 1
        /\ \A i \in 1..Len(path) : Ch(path, i) \notin WS \cup {":"}
        /\ EndsInSourceExtension(path)
        /\ line # ""
        /\ \A i \in 1..Len(line) : Ch(line, i) \in DIGITS
        /\ \E i \in 1..Len(line) : Ch(line, i) # "0"

\* C11: every element of the file locations of every issue is a well-formed
\* path:line string: path without colon and white space, ending in a source
\* file extension, and line the numeral of a positive integer.
C11_LocationsWellFormed ==
    Parsed =>
        \A n \in 1..Len(issues) :
            \A loc \in issues[n].file_locations : WellFormedLocation(loc)

\* the line refers to a .c or .h file with a line number
HasReference(line) == Contains(line, ".c:") \/ Contains(line, ".h:")

\* C12: extract_file_locations contributes exactly one entry per file
\* reference, whichever patterns match it: a block whose only file references
\* are "(foo.c:42)" on one line and "at bar.h:7" on another has the file
\* locations {foo.c:42, bar.h:7}.
C12_OneEntryPerReference ==
    Parsed =>
        \A n \in 1..Len(issues) :
            LET lines == issues[n].raw_log
            IN  {lines[i] : i \in {j \in 1..Len(lines) : HasReference(lines[j])}}
                        = {"(foo.c:42)", "at bar.h:7"}
                    => issues[n].file_locations = {"foo.c:42", "bar.h:7"}

-----------------------------------------------------------------------------
(* Properties of the error handling of the run (Spec, FairSpec) *)

\* the log files of a list that can be opened and read
Readable(files) == SelectSeq(files, LAMBDA f : f.ok)

\* the path glob.glob returned for log file f of the tool
PathOf(tool, f) == path_join(path_join(args.log_dir, tool), f.name)

\* a diagnostic about the path was printed on stderr
Diagnosed(path) ==
    \E m \in 1..Len(stderr) : StartsAt(stderr[m], "Error reading " \o path, 1)

\* the parser is about to be called on a log file that cannot be read
AtUnreadableFile == pc = "for_file" /\ fi <= Len(log_files) /\ ~log_files[fi].ok

\* generate_report has returned the report of the run
ReportRendered == pc = "output" /\ report = generate_report(all_issues, args)

\* while the files of a tool are parsed: each unreadable file met so far was
\* diagnosed and contributed nothing, the readable ones contributed their issues
UnreadableSkipped ==
    pc = "for_file" =>
        LET tool == tool_at(args, ti)
            done == SubSeq(log_files, 1, fi - 1)
        IN  /\ issues = ParsedConcat(tool, Readable(done), args)
            /\ \A j \in 1..Len(done) :
                  (~done[j].ok /\ tool \in TOOLS) =>
                      /\ Diagnosed(PathOf(tool, done[j]))
                      /\ parse_log(tool, done[j], args) = <<>>

\* when parse_all_logs has returned: every requested tool has the issues of
\* all its readable files
OthersParsed ==
    (pc = "dedup" /\ ti = 1) =>
        \A k \in 1..Len(tools_of(args)) :
            /\ dict_has(all_issues, tool_at(args, k))
            /\ dict_get(all_issues, tool_at(args, k))
                  = ParsedConcat(tool_at(args, k),
                                 Readable(find_log_files(fs, tool_at(args, k))), args)

\* C13: if a log file cannot be opened or read, its parser emits a diagnostic
\* and returns the empty list, the other files of the tool and the files of the
\* other tools are still parsed and contribute their issues, and the run still
\* renders its report.
C13_UnreadableFileIsSkipped ==
    /\ [](UnreadableSkipped /\ OthersParsed)
    /\ (AtUnreadableFile ~> ReportRendered)

\* a run that met an unreadable log file has rendered its report, which counts
\* the issues of a readable file of the same tool
C13_Witness ==
    /\ ReportRendered
    /\ \E k \in 1..Len(all_issues) :
          LET files == find_log_files(fs, all_issues[k].key)
          IN  /\ \E j \in 1..Len(files) :
                    ~files[j].ok /\ Diagnosed(PathOf(all_issues[k].key, files[j]))
              /\ \E j \in 1..Len(files) : files[j].ok
              /\ all_issues[k].val # <<>>

\* stderr holds a line that names the tool
WarnedAbout(tool) == \E m \in 1..Len(stderr) : Contains(stderr[m], tool)

\* parse_all_logs has returned its mapping
AllLogsParsed == pc = "dedup" /\ ti = 1

\* C14: if a requested tool's subdirectory does not exist or holds no matching
\* log file, a warning is emitted on the diagnostic channel, the tool's entry in
\* the result mapping is an empty sequence, and all remaining requested tools
\* are still processed.
C14_NoLogsWarned ==
    AllLogsParsed =>
        \A k \in 1..Len(tools_of(args)) :
            find_log_files(fs, tool_at(args, k)) = <<>> =>
                /\ WarnedAbout(tool_at(args, k))
                /\ dict_has(all_issues, tool_at(args, k))
                /\ dict_get(all_issues, tool_at(args, k)) = <<>>
                /\ \A j \in 1..Len(tools_of(args)) : dict_has(all_issues, tool_at(args, j))

\* C15: main returns exit status 0 on every run that reaches the end, whatever
\* the number of issues found (also with missing directories, zero log files or
\* unreadable files); the only step that can end the run abnormally is the
\* final writing of the text report or of the JSON file.
C15_ExitStatusZero ==
    /\ [](pc = "exited" => exit_status = 0)
    /\ [][pc' = "raised" => pc \in {"output", "json"}]_vars

\* a run that found issues, met a missing directory and an unreadable or absent
\* log file, has reached the end
C15_Witness ==
    /\ pc = "exited"
    /\ exit_status = 0
    /\ total_issues(all_issues) > 0
    /\ \E m \in 1..Len(stderr) : StartsAt(stderr[m], "Warning: Directory not found", 1)
    /\ \E k \in 1..Len(all_issues) : all_issues[k].val = <<>>

-----------------------------------------------------------------------------
(* Properties of the classification and of the stack frames                 *)
(* (SpecCategories, SpecFrames)                                             *)

\* the first line of a block, stripped, as the parsers take it
FirstLine(block) == Strip(Split(Strip(block), "\n")[1])

\* the text of the first line of a tsan block between the marker and the next
\* colon (the end of the line if no colon follows)
TsanFreeText(block) ==
    LET rest == From(FirstLine(block), Len("WARNING: ThreadSanitizer:") + 1)
        colon == StrFind(rest, ":", 1)
    IN  IF colon = 0 THEN rest ELSE SubSeq(rest, 1, colon - 1)

\* the category the priority rules of the tsan parser give a block
TsanCategory(block) ==
    LET low == Lower(block)
    IN  IF Contains(low, "data race") THEN "Data Race"
        ELSE IF Contains(low, "lock order inversion") \/ Contains(low, "deadlock")
            THEN "Lock Order Violation"
        ELSE IF Contains(low, "thread leak") THEN "Thread Leak"
        ELSE IF Contains(low, "use-after-free") THEN "Use After Free"
        ELSE IF TsanFreeText(block) = "" THEN "Unknown"
        ELSE Strip(TsanFreeText(block))

\* C16: the tsan parser assigns the category by the first rule that matches
\* the truncated block, case-insensitively: 'data race', then 'lock order
\* inversion' or 'deadlock', then 'thread leak', then 'use-after-free';
\* otherwise the category is the text between the marker and the next colon of
\* the first line, and Unknown only if there is no such text.
C16_TsanCategory ==
    (Parsed /\ TheTool = TSAN) =>
        LET blocks == Blocks
            kept == KeptBlocks
        IN  /\ Len(issues) = Cardinality(kept)
            /\ \A n \in 1..Len(issues) :
                  issues[n].issue_type = TsanCategory(blocks[NthOf(kept, n)])

\* a tsan log with a 'SUMMARY' report and a report that shows both 'data race'
\* and 'Thread Leak' has been parsed
C16_Witness ==
    /\ Parsed /\ TheTool = TSAN
    /\ \E n \in 1..Len(issues) :
          /\ issues[n].issue_type = "SUMMARY"
          /\ issues[n].raw_log[1] = "WARNING: ThreadSanitizer: SUMMARY: foo"
    /\ \E n \in 1..Len(issues) :
          /\ issues[n].issue_type = "Data Race"
          /\ \E i \in 1..Len(issues[n].raw_log) : Contains(issues[n].raw_log[i], "Thread Leak")

\* the rules of the helgrind parser that a block matches, by their rank
HelgrindRules(block) ==
    {r \in 1..3 :
        \/ r = 1 /\ Contains(block, "Possible data race")
        \/ r = 2 /\ Contains(block, "Lock order")
        \/ r = 3 /\ Contains(block, "Thread #")
                 /\ (Contains(block, "read") \/ Contains(block, "write"))}

HelgrindCategoryOfRule ==
    <<"Data Race", "Lock Order Violation", "Data Access Violation">>

\* C19: the helgrind parser assigns the category by the first rule that matches
\* the block: 'Possible data race' gives Data Race; else 'Lock order' gives
\* Lock Order Violation; else 'Thread #' with 'read' or 'write' gives Data
\* Access Violation; else Unknown; a block matching several rules gets the
\* category of the earliest rule.
C19_HelgrindCategory ==
    (Parsed /\ TheTool = HELGRIND) =>
        LET blocks == Blocks
            kept == KeptBlocks
        IN  /\ Len(issues) = Cardinality(kept)
            /\ \A n \in 1..Len(issues) :
                  LET rules == HelgrindRules(blocks[NthOf(kept, n)])
                  IN  issues[n].issue_type =
                          IF rules = {} THEN "Unknown" ELSE HelgrindCategoryOfRule[Min(rules)]

\* a helgrind block that matches the second and the third rule has been
\* classified by the second
C19_Witness ==
    /\ Parsed /\ TheTool = HELGRIND
    /\ \E k \in KeptBlocks : HelgrindRules(Blocks[k]) = {2, 3}
    /\ \E n \in 1..Len(issues) :
          /\ issues[n].issue_type = "Lock Order Violation"
          /\ \E i \in 1..Len(issues[n].raw_log) : Contains(issues[n].raw_log[i], "Thread #")

\* s cut at every occurrence of the marker, left to right
RECURSIVE Pieces(_, _)
Pieces(s, marker) ==
    LET i == StrFind(s, marker, 1)
    IN  IF i = 0 THEN <<s>>
        ELSE <<SubSeq(s, 1, i - 1)>> \o Pieces(From(s, i + Len(marker)), marker)

\* the reports of a tsan log: the text from each marker up to the next one
TsanReports(content) ==
    LET pieces == Pieces(content, "WARNING: ThreadSanitizer:")
    IN  [k \in 1..(Len(pieces) - 1) |-> "WARNING: ThreadSanitizer:" \o pieces[k + 1]]

\* the lines of a report before its first blank-line gap (an empty line that
\* another line follows), without the white space that ends the text
BeforeGap(rep) ==
    LET lines == Split(rep, "\n")
        gaps == {i \in 1..(Len(lines) - 1) : lines[i] = ""}
        upto == IF gaps = {} THEN Len(lines) ELSE Min(gaps) - 1
    IN  Split(Strip(Join("\n", SubSeq(lines, 1, upto))), "\n")

\* the '#<digits>' frame lines of a list of lines, cleaned, in order
TsanFrames(lines) ==
    LET frames == SelectSeq(lines, LAMBDA l : tsan_frame_re(l) # 0)
    IN  [i \in 1..Len(frames) |-> sub_frame(TSAN, frames[i])]

\* C17: every tsan issue is built only from the text of its report up to the
\* first blank-line gap after the marker: its raw block contains no empty
\* line, and its stack frames are exactly the '#<digits>' frame lines before
\* that gap, in printed order, none from after the gap.
C17_TsanTruncatedAtGap ==
    (Parsed /\ TheTool = TSAN) =>
        LET reports == TsanReports(TheLog.content)
        IN  /\ Len(issues) = Len(reports)
            /\ \A n \in 1..Len(issues) :
                  LET before == BeforeGap(reports[n])
                  IN  /\ issues[n].raw_log = before
                      /\ \A i \in 1..Len(issues[n].raw_log) : issues[n].raw_log[i] # ""
                      /\ issues[n].stack_trace = TsanFrames(before)

\* a tsan report with two frame lines, a blank-line gap and a frame line after
\* the gap has been parsed
C17_Witness ==
    /\ Parsed /\ TheTool = TSAN
    /\ Contains(TheLog.content, "#1 g (b.c:2)\n\n  #2 h (c.c:3)")
    /\ Len(issues) = 1
    /\ issues[1].stack_trace = <<"f (a.c:1)", "g (b.c:2)">>

\* the indices of the at/by frame lines of a list of lines
FrameLines(lines) == {i \in 1..Len(lines) : valgrind_frame_re(lines[i]) # 0}

\* the index of the first blank line after the first frame line, past the end
\* if there is none
FirstBlankAfterFrame(lines) ==
    Min({i \in 1..Len(lines) :
            /\ FrameLines(lines) # {}
            /\ i > Min(FrameLines(lines))
            /\ Strip(lines[i]) = ""} \cup {Len(lines) + 1})

\* the frames collected from a list of lines: the cleaned frame lines before
\* the terminating blank line, in order
ValgrindFrames(lines) ==
    LET stop == FirstBlankAfterFrame(lines)
        frames == {i \in FrameLines(lines) : i < stop}
    IN  [n \in 1..Cardinality(frames) |-> sub_frame(HELGRIND, lines[NthOf(frames, n)])]

\* the block of the example: 'Lock order violated', two frame lines, then a
\* blank line or the end of the block
LockOrderExample(lines) ==
    \E i \in 1..Len(lines) :
        /\ Contains(lines[i], "Lock order violated")
        /\ FrameLines(lines) \cap (1..(i + 2)) = {i + 1, i + 2}
        /\ i + 2 = Len(lines) \/ (i + 2 < Len(lines) /\ Strip(lines[i + 3]) = "")

\* C18: for helgrind and drd, extract_stack_trace collects the at/by frame
\* lines in printed order and stops at the first blank line that follows at
\* least one collected frame; blank lines before the first frame do not stop it
\* and frame lines after the terminating blank line are not collected; a block
\* with 'Lock order violated', two frame lines and a blank line yields an issue
\* of category Lock Order Violation with exactly 2 stack frames.
C18_StackStopsAtBlank ==
    (Parsed /\ TheTool \in {HELGRIND, DRD}) =>
        \A n \in 1..Len(issues) :
            LET lines == issues[n].raw_log
            IN  /\ issues[n].stack_trace = ValgrindFrames(lines)
                /\ (TheTool = HELGRIND /\ LockOrderExample(lines)) =>
                      /\ issues[n].issue_type = "Lock Order Violation"
                      /\ Len(issues[n].stack_trace) = 2

\* the block of the example, followed by a blank line and a further frame
\* line, has been parsed into one issue with two frames
C18_Witness ==
    /\ Parsed /\ TheTool = HELGRIND
    /\ Len(issues) = 1
    /\ LockOrderExample(issues[1].raw_log)
    /\ Cardinality(FrameLines(issues[1].raw_log)) = 3
    /\ issues[1].issue_type = "Lock Order Violation"
    /\ issues[1].stack_trace = <<"f (a.c:1)", "g (b.c:2)">>

-----------------------------------------------------------------------------
(* Properties of the run identifier (Spec) *)

\* <id> of a base name <prefix><id>.log, with <prefix> the tool and "_"
IdOfName(tool, name) == SubSeq(name, Len(tool) + 2, Len(name) - 4)

\* C20: for every log file whose base name is <prefix><id>.log, with <prefix>
\* the tool's prefix (helgrind_, drd_ or tsan_), the run_id of every issue
\* parsed from it equals <id>: only the leading prefix and the trailing .log
\* are removed.
C20_RunIdIsNameWithoutPrefixAndSuffix ==
    (pc = "for_file" /\ fi > 1 /\ tool_at(args, ti) \in TOOLS) =>
        LET tool == tool_at(args, ti)
            f == log_files[fi - 1]
            new == parse_log(tool, f, args)
        IN  /\ Len(issues) >= Len(new)
            /\ \A n \in (Len(issues) - Len(new) + 1)..Len(issues) :
                  issues[n].run_id = IdOfName(tool, f.name)

-----------------------------------------------------------------------------
(* Properties of the text report and of the JSON export (SpecReport) *)

\* the index of the first line of a list that equals the text, 0 if none
LineIndex(lines, text) ==
    LET hits == {i \in 1..Len(lines) : lines[i] = text}
    IN  IF hits = {} THEN 0 ELSE Min(hits)

\* the lines of a report before its detailed part
SummaryPart(text) ==
    LET lines == Split(text, "\n")
        d == LineIndex(lines, "Detailed Issues")
    IN  IF d = 0 THEN lines ELSE SubSeq(lines, 1, d - 1)

\* the lines of a report from its detailed part on
DetailPart(text) ==
    LET lines == Split(text, "\n")
        d == LineIndex(lines, "Detailed Issues")
    IN  IF d = 0 THEN <<>> ELSE SubSeq(lines, d, Len(lines))

\* the lines of the detailed section of a tool: those after its heading, up to
\* the heading of the next tool
DetailSection(text, tool) ==
    LET lines == DetailPart(text)
        start == LineIndex(lines, Upper(tool) \o " Issues:")
        later == {i \in (start + 1)..Len(lines) :
                     \E k \in 1..Len(all_issues) :
                         lines[i] = Upper(all_issues[k].key) \o " Issues:"}
        stop == IF later = {} THEN Len(lines) + 1 ELSE Min(later)
    IN  IF start = 0 THEN <<>> ELSE SubSeq(lines, start + 1, stop - 1)

\* the headings "Issue #i: category" of a section, in order
IssueHeadings(section) == SelectSeq(section, LAMBDA l : StartsAt(l, "Issue #", 1))

\* the trailers "... and N more TOOL issues" of a section
Trailers(section) == SelectSeq(section, LAMBDA l : StartsAt(l, "... and ", 1))

\* the report of the run has been rendered with its detailed part
DetailRendered == pc = "output" /\ ~args.summary_only

\* C21: in the detailed report of a tool with n issues, at most max_issues
\* issues are shown, a trailer '... and N more' appears exactly when some issue
\* of the tool is not shown, and N is the number of issues not shown; the
\* summary is the same for every value of max_issues (it is the summary
\* rendered with the default value).
C21_CapAndTrailer ==
    DetailRendered =>
        /\ \A k \in 1..Len(all_issues) :
              LET tool == all_issues[k].key
                  n == Len(all_issues[k].val)
                  section == DetailSection(report, tool)
                  shown == Len(IssueHeadings(section))
              IN  /\ shown = 0 \/ shown <= args.max_issues
                  /\ shown <= n
                  /\ Trailers(section) # <<>> <=> shown < n
                  /\ \A i \in 1..Len(Trailers(section)) :
                        Trailers(section)[i] = "... and " \o Str(n - shown) \o " more "
                                                   \o Upper(tool) \o " issues"
        /\ SummaryPart(report)
              = Split(generate_report(all_issues, [args EXCEPT !.max_issues = 10,
                                                               !.summary_only = TRUE]), "\n")

\* the categories of a list of issues, each once, in the order in which they
\* first occur in the list
CategoriesInOrder(tool_issues) ==
    LET first == {i \in 1..Len(tool_issues) :
                     \A j \in 1..(i - 1) :
                         tool_issues[j].issue_type # tool_issues[i].issue_type}
    IN  [n \in 1..Cardinality(first) |-> tool_issues[NthOf(first, n)].issue_type]

\* the number of issues of a list that have the category
CountOf(tool_issues, category) ==
    Cardinality({i \in 1..Len(tool_issues) : tool_issues[i].issue_type = category})

\* the sum of a sequence of numbers
RECURSIVE Sum(_)
Sum(ns) == IF ns = <<>> THEN 0 ELSE Head(ns) + Sum(Tail(ns))

\* the number N of a breakdown line "  - category: N" of the category
BreakdownCount(line, category) ==
    CHOOSE c \in 0..MaxIssues + 1 : line = "  - " \o category \o ": " \o Str(c)

\* C22: in the text report the header total is the sum over all tools of the
\* size of the tool's deduplicated list, each tool's line shows that size, and
\* the per-category counts of the tool sum to that size and are listed in the
\* order in which each category first occurs in the tool's list.
C22_SummaryCounts ==
    pc = "output" =>
        LET lines == SummaryPart(report)
        IN  /\ lines[3] = "Total unique issues found: "
                            \o Str(Sum([k \in 1..Len(all_issues) |-> Len(all_issues[k].val)]))
            /\ \A k \in 1..Len(all_issues) :
                  LET tool == all_issues[k].key
                      list == all_issues[k].val
                      cats == CategoriesInOrder(list)
                      at == LineIndex(lines, Upper(tool) \o ": " \o Str(Len(list))
                                                 \o " issues found")
                  IN  IF list = <<>>
                      THEN LineIndex(lines, Upper(tool) \o ": No issues found") # 0
                      ELSE /\ at # 0
                           /\ at + Len(cats) + 1 <= Len(lines)
                           /\ \A j \in 1..Len(cats) :
                                 lines[at + j] = "  - " \o cats[j] \o ": "
                                                     \o Str(CountOf(list, cats[j]))
                           /\ lines[at + Len(cats) + 1] = ""
                           /\ Sum([j \in 1..Len(cats) |->
                                      BreakdownCount(lines[at + j], cats[j])]) = Len(list)

\* a report has been rendered for three helgrind issues whose first category
\* is not the least one, and one tsan issue
C22_Witness ==
    /\ pc = "output"
    /\ Len(all_issues[1].val) = 3
    /\ CategoriesInOrder(all_issues[1].val) = <<"Lock Order Violation", "Data Race">>
    /\ Len(all_issues[2].val) = 1
    /\ SummaryPart(report)[3] = "Total unique issues found: 4"

\* the place of the i-th issue of a list in the list ordered by category, the
\* issues of one category in their order in the list
PlaceByCategory(tool_issues, i) ==
    1 + Cardinality({j \in 1..Len(tool_issues) :
                        \/ StrLess(tool_issues[j].issue_type, tool_issues[i].issue_type)
                        \/ /\ tool_issues[j].issue_type = tool_issues[i].issue_type
                           /\ j < i})

\* the list ordered by category
ByCategory(tool_issues) ==
    [r \in 1..Len(tool_issues) |->
        tool_issues[CHOOSE i \in 1..Len(tool_issues) : PlaceByCategory(tool_issues, i) = r]]

\* the lines "Description: ..." of a section, in order
DescriptionLines(section) == SelectSeq(section, LAMBDA l : StartsAt(l, "Description: ", 1))

\* how many issues of a list of n the cap lets through
ShownCount(n, cap) == IF cap <= 0 THEN 0 ELSE IF n < cap THEN n ELSE cap

\* C23: in the detailed section the issues of a tool appear in non-decreasing
\* order of category and, within a category, in discovery order; the cap
\* max_issues is applied to this sorted sequence: the issues shown are its
\* first max_issues elements.
C23_SortedThenCapped ==
    DetailRendered =>
        \A k \in 1..Len(all_issues) :
            LET list == all_issues[k].val
                section == DetailSection(report, all_issues[k].key)
                ordered == ByCategory(list)
                shown == ShownCount(Len(list), args.max_issues)
            IN  /\ IssueHeadings(section)
                      = [r \in 1..shown |-> "Issue #" \o Str(r) \o ": " \o ordered[r].issue_type]
                /\ DescriptionLines(section)
                      = [r \in 1..shown |-> "Description: " \o ordered[r].description]
                /\ \A r \in 1..(shown - 1) :
                      ~StrLess(ordered[r + 1].issue_type, ordered[r].issue_type)

\* a report has been rendered with cap 2 for a list that holds a Lock Order
\* Violation before two Data Races: the Data Races are shown, in list order
C23_Witness ==
    /\ DetailRendered
    /\ args.max_issues = 2
    /\ CategoriesInOrder(all_issues[1].val) = <<"Lock Order Violation", "Data Race">>
    /\ Len(all_issues[1].val) = 3
    /\ DescriptionLines(DetailSection(report, HELGRIND))
          = <<"Description: " \o all_issues[1].val[2].description,
              "Description: " \o all_issues[1].val[3].description>>

\* the fields of an object of the JSON export
JsonFields == {"tool", "issue_type", "description", "stack_trace", "file_locations", "run_id"}

\* main has passed its "Output JSON if requested" step
JsonStepDone == pc \in {"return", "exited"}

\* C24: the JSON export is written only when a JSON path is requested and is
\* built from the same deduplicated mapping as the text report: one key per
\* processed tool, whose array holds one object per issue of the tool's
\* deduplicated list, in the same order and number as counted in the text
\* summary, each object with exactly the fields tool, issue_type, description,
\* stack_trace, file_locations and run_id, the raw block absent.
C24_JsonExport ==
    /\ args.json = "" => \A e \in 1..Len(out_files) : out_files[e].key = args.output
    /\ (args.json # "" /\ ~JsonStepDone) => ~dict_has(out_files, args.json)
    /\ (args.json # "" /\ JsonStepDone) =>
          /\ dict_has(out_files, args.json)
          /\ LET data == dict_get(out_files, args.json)
             IN  /\ Len(data) = Len(all_issues)
                 /\ \A k \in 1..Len(data) :
                       LET list == all_issues[k].val
                       IN  /\ data[k].key = all_issues[k].key
                           /\ Len(data[k].val) = Len(list)
                           /\ list # <<>> =>
                                 LineIndex(SummaryPart(report),
                                           Upper(data[k].key) \o ": " \o Str(Len(data[k].val))
                                               \o " issues found") # 0
                           /\ \A n \in 1..Len(list) :
                                 /\ DOMAIN data[k].val[n] = JsonFields
                                 /\ \A f \in JsonFields : data[k].val[n][f] = list[n][f]

\* a JSON export of two helgrind issues and one tsan issue has been written
C24_Witness ==
    /\ JsonStepDone
    /\ args.json # ""
    /\ dict_has(out_files, args.json)
    /\ Len(dict_get(out_files, args.json)[1].val) = 2
    /\ Len(dict_get(out_files, args.json)[2].val) = 1

\* the signature computed from the current fields of an issue
SignatureOf(issue) ==
    issue.tool \o ":" \o issue.issue_type \o ":" \o Join("|", Take(issue.stack_trace, 3))

\* every issue of the mapping stores the signature of its current fields
SignaturesCurrent ==
    \A k \in 1..Len(all_issues) :
        \A n \in 1..Len(all_issues[k].val) :
            all_issues[k].val[n].hash = SignatureOf(all_issues[k].val[n])

\* xs is ys with some elements left out
RECURSIVE IsSubsequence(_, _)
IsSubsequence(xs, ys) ==
    IF xs = <<>> THEN TRUE
    ELSE IF ys = <<>> THEN FALSE
    ELSE IF Head(xs) = Head(ys) THEN IsSubsequence(Tail(xs), Tail(ys))
    ELSE IsSubsequence(xs, Tail(ys))

\* a step of main leaves the issues as they are: the deduplication of a tool
\* only leaves issues out of the tool's list, every other step keeps the mapping
IssuesUntouched ==
    /\ Len(all_issues') = Len(all_issues)
    /\ \A k \in 1..Len(all_issues) :
          /\ all_issues'[k].key = all_issues[k].key
          /\ IF pc = "dedup" /\ k = ti
             THEN IsSubsequence(all_issues'[k].val, all_issues[k].val)
             ELSE all_issues'[k].val = all_issues[k].val

\* C25: an issue is never mutated after construction: deduplicate_issues,
\* generate_report and to_dict leave every field of every issue and the input
\* lists unchanged, so at every point each issue's stored signature equals the
\* value computed from its current tool, category and first three frames.
C25_IssuesImmutable ==
    /\ []SignaturesCurrent
    /\ [][IssuesUntouched]_vars

\* the run has ended after the deduplication, the report and the JSON export,
\* with a helgrind list that is not in category order
C25_Witness ==
    /\ pc = "exited"
    /\ args.json # ""
    /\ dict_has(out_files, args.json)
    /\ CategoriesInOrder(all_issues[1].val) = <<"Lock Order Violation", "Data Race">>
    /\ Len(all_issues[1].val) = 2
    /\ Len(all_issues[2].val) = 1

-----------------------------------------------------------------------------
(* Properties of the description and of the frames (SpecDescriptions,       *)
(* SpecFrames)                                                              *)

\* the line shows the keyword that gives a helgrind block the category
ShowsKeyword(line, category) ==
    IF category = "Data Race" THEN Contains(line, "Possible data race")
    ELSE IF category = "Lock Order Violation" THEN Contains(line, "Lock order")
    ELSE /\ Contains(line, "Thread #")
         /\ Contains(line, "read") \/ Contains(line, "write")

\* C26: for every helgrind issue of category Data Race, Lock Order Violation or
\* Data Access Violation, the description is the trimmed first line of the raw
\* block that contains the keyword of the category; the placeholder 'Unknown
\* issue' is the description only of issues of category Unknown.
C26_HelgrindDescription ==
    (Parsed /\ TheTool = HELGRIND) =>
        \A n \in 1..Len(issues) :
            LET lines == issues[n].raw_log
                category == issues[n].issue_type
                hits == {i \in 1..Len(lines) : ShowsKeyword(lines[i], category)}
            IN  /\ category \in {"Data Race", "Lock Order Violation", "Data Access Violation"} =>
                      /\ hits # {}
                      /\ issues[n].description = Strip(lines[Min(hits)])
                /\ issues[n].description = "Unknown issue" => category = "Unknown"

\* the position after the frame marker at the start of a trimmed frame line:
\* 'at' or 'by' for helgrind and drd, '#<digits>' for tsan
AfterMarker(tool, t) == IF tool = TSAN THEN 2 + Run(t, DIGITS, 2) ELSE 3

\* a trimmed frame line with the marker and the whitespace after it removed
WithoutMarker(tool, line) ==
    LET t == Strip(line)
        rest == From(t, AfterMarker(tool, t))
    IN  From(rest, 1 + Run(rest, WS, 1))

\* a frame that is nothing but a marker token
IsMarkerToken(tool, f) ==
    IF tool = TSAN
    THEN Ch(f, 1) = "#" /\ Len(f) >= 2 /\ Run(f, DIGITS, 2) = Len(f) - 1
    ELSE f \in {"at", "by"}

\* the lines of a block whose frames are collected, in order
CollectedLines(tool, lines) ==
    IF tool = TSAN
    THEN SelectSeq(lines, LAMBDA l : tsan_frame_re(l) # 0)
    ELSE LET stop == FirstBlankAfterFrame(lines)
             frames == {i \in FrameLines(lines) : i < stop}
         IN  [n \in 1..Cardinality(frames) |-> lines[NthOf(frames, n)]]

\* C27: every stored frame is the trimmed frame line with the marker ('at' or
\* 'by' for helgrind and drd, '#<digits>' for tsan) and the whitespace after it
\* removed, also when nothing but whitespace follows the marker: no stored
\* frame is the marker token itself.
C27_FrameCleaning ==
    Parsed =>
        \A n \in 1..Len(issues) :
            LET collected == CollectedLines(TheTool, issues[n].raw_log)
                stack == issues[n].stack_trace
            IN  /\ Len(stack) = Len(collected)
                /\ \A i \in 1..Len(stack) :
                      /\ stack[i] = WithoutMarker(TheTool, collected[i])
                      /\ ~IsMarkerToken(TheTool, stack[i])

\* the part of C27 that holds: a frame line with text after the marker is
\* stored without the marker and the whitespace after it
FramesWithTextCleaned ==
    Parsed =>
        \A n \in 1..Len(issues) :
            LET collected == CollectedLines(TheTool, issues[n].raw_log)
                stack == issues[n].stack_trace
            IN  /\ Len(stack) = Len(collected)
                /\ \A i \in 1..Len(stack) :
                      WithoutMarker(TheTool, collected[i]) # "" =>
                          stack[i] = WithoutMarker(TheTool, collected[i])

-----------------------------------------------------------------------------
(* Properties of the signature as a key (SpecDedup) *)

\* two issues have the same tool, category and first three stack frames
SameKey(x, y) ==
    /\ x.tool = y.tool
    /\ x.issue_type = y.issue_type
    /\ Take(x.stack_trace, 3) = Take(y.stack_trace, 3)

\* C28: within one tool the signature is injective on what it is derived
\* from: two issues have equal signatures only if they have the same category
\* and the same first three stack frames, also when a frame contains the
\* separator '|'; so deduplicate_issues never discards an issue whose category
\* or leading frames differ from those of every issue it keeps.
C28_SignatureInjective ==
    pc = "dd_return" =>
        /\ \A i, j \in 1..Len(dd_in) :
              (dd_in[i].tool = dd_in[j].tool /\ dd_in[i].hash = dd_in[j].hash)
                  => SameKey(dd_in[i], dd_in[j])
        /\ \A i \in 1..Len(dd_in) : \E n \in 1..Len(dd_out) : SameKey(dd_in[i], dd_out[n])

\* the part of C28 that holds: issues whose leading frames are free of the
\* separator have equal signatures only if they have the same key
SignatureInjectiveWithoutSeparator ==
    \A i, j \in 1..Len(dd_in) :
        (/\ dd_in[i].hash = dd_in[j].hash
         /\ NoSeparator(Take(dd_in[i].stack_trace, 3))
         /\ NoSeparator(Take(dd_in[j].stack_trace, 3)))
            => SameKey(dd_in[i], dd_in[j])

-----------------------------------------------------------------------------
(* tools/run_many.py: a shell command repeated n times on a pool of worker  *)
(* threads. pc, args and exit_status are those of this process; what the    *)
(* console shows is left out.                                               *)

\* the largest --runs and --parallel
MaxRuns == 3
MaxParallel == 2

\* the state of analyze_thread_logs.py, which run_many.py leaves alone
analyzer == <<fs, ti, fi, log_files, issues, all_issues, dd_in, dd_out, io, report, out_files>>

\* the return codes of the command
ReturnCodes == {0, 1}

\* what the command can leave in its log file: nothing, or the report of a
\* failed unit test
RunLogs == {<<>>, <<"[ RUN      ] T.a", "[  FAILED  ] T.a: expected 1 ">>}

\* the future of one run: "unsubmitted" before pool.submit, "pending" while
\* queued, "running" while a worker executes _run_once, then "finished" with
\* the return code and the log, or "raised"; yielded once as_completed has
\* handed it to the loop
Future(state, returncode, log, yielded) ==
    [state |-> state, returncode |-> returncode, log |-> log, yielded |-> yielded]

Completed(r) == futures[r].state \in {"finished", "raised"}

\* log_dir / f"run_{run_id:03d}.log", relative to the log directory
log_path(run_id) == "run_" \o Repeat("0", 3 - Len(Str(run_id))) \o Str(run_id) \o ".log"

\* line.split("[  FAILED  ]", 1)[1].strip().split(":", 1)[0].strip()
test_name(line) ==
    LET parts == Strip(From(line, StrFind(line, "[  FAILED  ]", 1) + Len("[  FAILED  ]")))
    IN  Strip(Head(Split(parts, ":")))

\* the names of the failed tests of a log
RECURSIVE scan_log(_)
scan_log(log) ==
    IF log = <<>> THEN <<>>
    ELSE (IF Contains(Head(log), "[  FAILED  ]") THEN <<test_name(Head(log))>> ELSE <<>>)
             \o scan_log(Tail(log))

\* the entry appended to results for a completed future: a run that raised
\* counts as exit code 1 with the log path <internal>, which cannot be opened
result_of(run_id) ==
    IF futures[run_id].state = "raised"
    THEN [exit_code |-> 1, log_path |-> "<internal>", failed_tests |-> <<>>]
    ELSE [exit_code |-> futures[run_id].returncode,
          log_path |-> log_path(run_id),
          failed_tests |-> scan_log(futures[run_id].log)]

\* all_failed_tests: extended by the failed tests of each entry as it is appended
RECURSIVE all_failed_tests(_)
all_failed_tests(rs) ==
    IF rs = <<>> THEN <<>> ELSE Head(rs).failed_tests \o all_failed_tests(Tail(rs))

\* len(results) - successes
exit_failures(rs) == Cardinality({k \in 1..Len(rs) : rs[k].exit_code # 0})

\* --runs or --parallel is not positive: exit status 2
RejectArgs ==
    /\ pc = "check_args"
    /\ args.runs <= 0 \/ args.parallel <= 0
    /\ exit_status' = 2
    /\ pc' = "exited"
    /\ UNCHANGED <<args, run_many, analyzer>>

\* the log directory is made, the SIGINT handler installed, the pool created
EnterPool ==
    /\ pc = "check_args"
    /\ args.runs > 0 /\ args.parallel > 0
    /\ pc' = "submit"
    /\ UNCHANGED <<args, run_many, exit_status, analyzer>>

\* one pool.submit of the dict comprehension, in the order of run_id
Submit ==
    /\ pc = "submit"
    /\ LET run_id == Min({r \in DOMAIN futures : futures[r].state = "unsubmitted"})
       IN  /\ futures' = [futures EXCEPT ![run_id].state = "pending"]
           /\ pc' = IF run_id = args.runs THEN "as_completed" ELSE "submit"
    /\ UNCHANGED <<args, results, stop_event, exit_status, analyzer>>

\* a worker thread of the pool takes the oldest queued run and begins _run_once;
\* the pool has at most args.parallel worker threads
WorkerStarts ==
    /\ \E run_id \in DOMAIN futures :
          /\ futures[run_id].state = "pending"
          /\ \A q \in 1..(run_id - 1) : futures[q].state # "pending"
          /\ Cardinality({q \in DOMAIN futures : futures[q].state = "running"}) < args.parallel
          /\ futures' = [futures EXCEPT ![run_id].state = "running"]
    /\ UNCHANGED <<pc, args, results, stop_event, exit_status, analyzer>>

\* _run_once returns: the command has ended with some return code and log
WorkerFinishes ==
    /\ \E run_id \in DOMAIN futures, code \in ReturnCodes, log \in RunLogs :
          /\ futures[run_id].state = "running"
          /\ futures' = [futures EXCEPT ![run_id] = Future("finished", code, log, FALSE)]
    /\ UNCHANGED <<pc, args, results, stop_event, exit_status, analyzer>>

\* _run_once raises (the log file cannot be created)
WorkerRaises ==
    /\ \E run_id \in DOMAIN futures :
          /\ futures[run_id].state = "running"
          /\ futures' = [futures EXCEPT ![run_id].state = "raised"]
    /\ UNCHANGED <<pc, args, results, stop_event, exit_status, analyzer>>

\* _handle_sigint, while it is the installed handler: stop_event.set()
HandleSigint ==
    /\ pc \in {"submit", "as_completed", "shutdown", "shutdown_raising"}
    /\ stop_event' = TRUE
    /\ UNCHANGED <<pc, args, futures, results, exit_status, analyzer>>

\* as_completed yields a completed future and stop_event is set: break
BreakLoop ==
    /\ pc = "as_completed"
    /\ stop_event
    /\ \E run_id \in DOMAIN futures :
          /\ Completed(run_id) /\ ~futures[run_id].yielded
          /\ futures' = [futures EXCEPT ![run_id].yielded = TRUE]
    /\ pc' = "shutdown"
    /\ UNCHANGED <<args, results, stop_event, exit_status, analyzer>>

\* as_completed yields a completed future and stop_event is not set: its log
\* is scanned and its entry appended to results; the loop ends after the last
RecordRun ==
    /\ pc = "as_completed"
    /\ ~stop_event
    /\ \E run_id \in DOMAIN futures :
          /\ Completed(run_id) /\ ~futures[run_id].yielded
          /\ futures' = [futures EXCEPT ![run_id].yielded = TRUE]
          /\ results' = Append(results, result_of(run_id))
          /\ pc' = IF \A r \in DOMAIN futures : r # run_id => futures[r].yielded
                   THEN "shutdown" ELSE "as_completed"
    /\ UNCHANGED <<args, stop_event, exit_status, analyzer>>

\* as_completed yields a future that raised and stop_event is not set, and the
\* console.print(..., file=sys.stderr) of the except clause raises itself
\* (whether Console.print takes the keyword `file` is the library's affair):
\* the exception leaves the loop
PrintRaises ==
    /\ pc = "as_completed"
    /\ ~stop_event
    /\ \E run_id \in DOMAIN futures :
          /\ futures[run_id].state = "raised" /\ ~futures[run_id].yielded
          /\ futures' = [futures EXCEPT ![run_id].yielded = TRUE]
    /\ pc' = "shutdown_raising"
    /\ UNCHANGED <<args, results, stop_event, exit_status, analyzer>>

\* leaving the with block: ThreadPoolExecutor.__exit__ is shutdown(wait=True),
\* which returns once every submitted run has completed; then the finally
\* clause restores the original SIGINT handler
Shutdown ==
    /\ pc \in {"shutdown", "shutdown_raising"}
    /\ \A r \in DOMAIN futures : Completed(r)
    /\ IF pc = "shutdown"
       THEN pc' = "summary" /\ UNCHANGED exit_status
       ELSE pc' = "raised" /\ exit_status' = 1
    /\ UNCHANGED <<args, run_many, analyzer>>

\* the summary and sys.exit: the success rate divides by len(results)
\* (ZeroDivisionError when nothing was recorded), and the detail of a run with
\* the log path <internal> raises ValueError in relative_to; an uncaught
\* exception ends the process with status 1
Summary ==
    /\ pc = "summary"
    /\ IF Len(results) = 0
           \/ \E k \in 1..Len(results) : results[k].log_path = "<internal>"
       THEN pc' = "raised" /\ exit_status' = 1
       ELSE /\ pc' = "exited"
            /\ exit_status' = IF exit_failures(results) = 0 /\ all_failed_tests(results) = <<>>
                              THEN 0 ELSE 1
    /\ UNCHANGED <<args, run_many, analyzer>>

NextRunMany ==
    \/ RejectArgs
    \/ EnterPool
    \/ Submit
    \/ WorkerStarts
    \/ WorkerFinishes
    \/ WorkerRaises
    \/ HandleSigint
    \/ BreakLoop
    \/ RecordRun
    \/ PrintRaises
    \/ Shutdown
    \/ Summary

\* python tools/run_many.py -n <runs> -p <parallel> "<command>"
InitRunMany ==
    /\ pc = "check_args"
    /\ \E n \in 0..MaxRuns, p \in 0..MaxParallel :
          /\ args = [command |-> "make run_system_demo", runs |-> n, parallel |-> p, tail |-> 20]
          /\ futures = [r \in 1..n |-> Future("unsubmitted", -1, <<>>, FALSE)]
    /\ results = <<>>
    /\ stop_event = FALSE
    /\ exit_status = -1
    /\ fs = [x \in TOOLS |-> NoDir]
    /\ ti = 1
    /\ fi = 1
    /\ log_files = <<>>
    /\ issues = <<>>
    /\ all_issues = <<>>
    /\ dd_in = <<>>
    /\ dd_out = <<>>
    /\ stdout = <<>>
    /\ stderr = <<>>
    /\ report = ""
    /\ out_files = <<>>

SpecRunMany == InitRunMany /\ [][NextRunMany]_vars

-----------------------------------------------------------------------------
(* Properties of run_many.py (SpecRunMany) *)

\* run_many.py has ended on a valid command line
RunManyEnded == pc \in {"exited", "raised"} /\ args.runs > 0 /\ args.parallel > 0

\* the run was executed, ended with exit code 0 and a log without a
\* '[  FAILED  ]' line, and was recorded in results
RunSucceeded(run_id) ==
    /\ futures[run_id].state = "finished"
    /\ futures[run_id].returncode = 0
    /\ \A i \in 1..Len(futures[run_id].log) : ~Contains(futures[run_id].log[i], "[  FAILED  ]")
    /\ \E k \in 1..Len(results) : results[k].log_path = log_path(run_id)

\* C29: run_many exits with status 0 if and only if all of the requested n
\* runs succeeded: each was executed, was recorded in results and ended with
\* exit code 0, and no log holds a '[  FAILED  ]' line; in every other case,
\* for every degree of parallelism and completion order, interrupted or not,
\* the exit status is not 0.
C29_ExitZeroIffAllRunsSucceeded ==
    RunManyEnded => (exit_status = 0 <=> \A run_id \in 1..args.runs : RunSucceeded(run_id))

\* what holds instead: the exit status is 0 exactly when main reaches sys.exit
\* with at least one run recorded and every recorded run a success; when all
\* the runs succeeded and were recorded it is 0
ExitZeroIffRecordedRunsSucceeded ==
    RunManyEnded =>
        /\ exit_status = 0 <=>
              /\ pc = "exited"
              /\ Len(results) >= 1
              /\ \A k \in 1..Len(results) :
                    results[k].exit_code = 0 /\ results[k].failed_tests = <<>>
        /\ (\A run_id \in 1..args.runs : RunSucceeded(run_id)) => exit_status = 0
        /\ (exit_status = 0 /\ Len(results) = args.runs) =>
              \A run_id \in 1..args.runs : RunSucceeded(run_id)

\* C30: once a SIGINT has been handled, no run that had not started by then is
\* started: only the runs already executing are waited for.
C30_NoRunStartsAfterInterrupt ==
    [][stop_event =>
          \A run_id \in DOMAIN futures :
              futures[run_id].state \in {"unsubmitted", "pending"}
                  => futures'[run_id].state \in {"unsubmitted", "pending"}]_vars

\* what holds instead: once a SIGINT has been handled and the loop has seen
\* it, no further run is recorded in results (the queued runs still execute)
NoRunRecordedAfterBreak ==
    [][(stop_event /\ pc # "as_completed") => results' = results]_vars

====
